---------------------------- MODULE Spec2Model ----------------------------
(***************************************************************************)
(* Appointment-booking chat handlers.                                      *)
(*                                                                         *)
(* Two handler modules keep a per-session slot-filling state in process    *)
(* memory:                                                                 *)
(*   "slot"   - src/src/handlers/chat.js lines 1-184: ten required fields, *)
(*              filled by a delegated (language-model) extractor, booked   *)
(*              after a yes/no confirmation;                               *)
(*   "cursor" - src/unnamed/part_001: seven ordered fields, one per        *)
(*              message, addressed by a cursor (session.step).             *)
(* A handler invocation is a chain of atomic segments separated by its     *)
(* real awaits (connect, insertOne, completions.create).                   *)
(***************************************************************************)
EXTENDS Integers, Sequences, FiniteSets, Bags, TLC

VARIABLES
    deployed,         \* which handler module the function loads
    sessions,         \* const sessions = {}: sessionId -> reference (0: no property)
    heap,             \* the session objects, by reference
    mongoClient,      \* let mongoClient: has new MongoClient(...) been assigned
    cachedCollection, \* slot: cachedDb/cachedCollection are set (assigned together)
    awsCollection,    \* cursor: awsCollection is set
    mongoPending,     \* cursor: a mongoClient.connect() is still in flight
    pineconeClient,   \* cursor: pineconeClient has been assigned
    pineconePending,  \* cursor: initPinecone's listIndexes() is still in flight
    insertedDocs,     \* number of documents insertOne has stored
    req,              \* the invocations: per slot, where the handler stands
    resp,             \* per slot, the response the last invocation returned
    budget,           \* per session key, the requests its client still sends
                      \* (negative: no limit)
    now,              \* Date.now(), in milliseconds since the module was loaded
    nextSweep,        \* when the setInterval timer of the idle sweep fires next
    swept,            \* per session key, the session the idle sweep deleted last
    openaiKey,        \* production: process.env.OPENAI_API_KEY is set
    rateLimitCache,   \* production: rateLimitCache, sessionId -> request times
    chats,            \* production: the documents of the chats collection
    appointments,     \* production: the appointments createAppointment has made
    admitted,         \* production: per sessionId, when its requests were admitted
    call,             \* production: the invocation, where the handler stands
    reply,            \* production: the response the last invocation returned
    collected,        \* the argument of validateAppointmentData
    validation,       \* what validateAppointmentData returned for it
    sessionCache,     \* production: sessionCache, sessionId -> cached history
    saved,            \* the messages of the chats collection, in creation order
    store,            \* inMemoryStore: store, sessionId -> list of messages
    returned          \* how the last call of one of these utilities ended

\* the state of the handler modules
handlerVars ==
    <<deployed, sessions, heap, mongoClient, cachedCollection, awsCollection,
      mongoPending, pineconeClient, pineconePending, insertedDocs, req, resp,
      budget>>

\* the clock and the idle sweep
clockVars == <<now, nextSweep, swept>>

\* the argument and the result of validateAppointmentData
validateVars == <<collected, validation>>

\* the session cache over the chats collection, and the in-memory message store
storeVars == <<sessionCache, saved, store, returned>>

\* the state of the production handler and of its appointment utilities
prodVars ==
    <<openaiKey, rateLimitCache, chats, appointments, admitted, call, reply,
      validateVars, storeVars>>

vars == <<handlerVars, clockVars, prodVars>>

---------------------------------------------------------------------------
(* Bounds of the model *)

\* documents the store accepts before the model stops taking requests
MaxInserts == 2

\* session keys the clients use
SessionIds == {"s1"}

\* the clock stops at MaxTime and moves in steps of TimeStep (milliseconds)
MaxTime == 960000
TimeStep == 30000

\* invocation slots of the sequential specification (one request at a time)
Slots == {1}

---------------------------------------------------------------------------
(* JavaScript values *)

\* a JS string is a sequence of one-character strings; "" is << >>
Str(s) == [t |-> "string", s |-> s]
JsUndefined == [t |-> "undefined"]
JsNull == [t |-> "null"]
JsNumber == [t |-> "number"]
JsArray == [t |-> "array"]
JsDate == [t |-> "date"]
Obj(props) == [t |-> "object", props |-> props]

EmptyMap == [k \in {} |-> JsUndefined]

\* the truthiness !v tests: undefined, null and "" are falsy (a number here is
\* non-zero, objects, arrays and dates are always truthy)
Truthy(v) ==
    /\ v.t \notin {"undefined", "null"}
    /\ v.t = "string" => v.s # << >>

Lower(c) ==
    CASE c = "Y" -> "y"
      [] c = "E" -> "e"
      [] c = "S" -> "s"
      [] c = "N" -> "n"
      [] c = "O" -> "o"
      [] OTHER -> c

\* /pat/i.test(s): pat (lower case, no metacharacters) occurs in s, case ignored
TestCI(pat, s) ==
    \E i \in 1..(Len(s) - Len(pat) + 1) :
        \A j \in 1..Len(pat) : Lower(s[i + j - 1]) = pat[j]

YesPattern == <<"y", "e", "s">>
NoPattern == <<"n", "o">>

\* { ...a, ...b } for two property maps
Spread(a, b) ==
    [k \in (DOMAIN a) \cup (DOMAIN b) |-> IF k \in DOMAIN b THEN b[k] ELSE a[k]]

\* the own enumerable properties that `...v` copies: those of an object; none
\* for undefined, null, a number or the empty array
SpreadProps(v) ==
    IF v.t = "object" THEN v.props ELSE EmptyMap

\* v.key for a JSON value other than null
Prop(v, key) ==
    IF v.t = "object" /\ key \in DOMAIN v.props THEN v.props[key] ELSE JsUndefined

---------------------------------------------------------------------------
(* Program constants *)

requiredFields ==
    <<"patientName", "dob", "email", "phone", "doctor", "service", "time",
      "status", "action", "chiefComplaint">>

appointmentFields ==
    <<"name", "email", "phoneNumber", "doctor", "service", "date", "time">>

Range(s) == {s[i] : i \in DOMAIN s}

\* requiredFields.filter(f => !data[f])
MissingFields(data) ==
    {f \in Range(requiredFields) : ~(f \in DOMAIN data /\ Truthy(data[f]))}

---------------------------------------------------------------------------
(* Inputs *)

mYes == Str(<<"Y", "e", "s">>)
mNo == Str(<<"n", "o">>)
mOk == Str(<<"o", "k">>)
mNoYes == Str(<<"n", "o", "Y", "E", "S">>)

SlotMessages == {mYes, mNo, mOk, mNoYes}
CursorMessages == {mYes, mOk}

\* event.body: a string JSON.parse rejects, no body at all, or an object whose
\* sessionId and message may be missing ("" and undefined)
Events(messages) ==
    {[kind |-> "badjson", sessionId |-> "", message |-> JsUndefined],
     [kind |-> "nobody", sessionId |-> "", message |-> JsUndefined]}
    \cup [kind : {"object"}, sessionId : SessionIds \cup {""},
          message : messages \cup {JsUndefined, Str(<< >>)}]

\* what completion.choices[0].message.content can be
CompletionTexts ==
    {"What is your name?", "null", "42", "[]", "{}",
     "{\"data\":null,\"nextPrompt\":\"?\"}",
     "{\"data\":{\"patientName\":\"J\",\"dob\":\"1\"},\"nextPrompt\":\"?\"}",
     "{\"data\":{\"email\":\"e\",\"phone\":\"5\",\"doctor\":\"d\",\"service\":\"s\"},\"nextPrompt\":\"?\"}",
     "{\"data\":{\"time\":\"9\",\"status\":\"p\",\"action\":\"a\",\"chiefComplaint\":\"c\"},\"nextPrompt\":\"?\"}",
     "{\"data\":{\"patientName\":\"K\"},\"nextPrompt\":\"?\"}",
     "{\"data\":{\"dob\":\"\"}}"}

\* a completion text that extracts all ten fields from one message
AllFieldsText ==
    "{\"data\":{\"patientName\":\"J\",\"dob\":\"1\",\"email\":\"e\",\"phone\":\"5\",\"doctor\":\"d\",\"service\":\"s\",\"time\":\"9\",\"status\":\"p\",\"action\":\"a\",\"chiefComplaint\":\"c\"},\"nextPrompt\":\"?\"}"

Reply(data) == Obj([data |-> data, nextPrompt |-> Str(<<"?">>)])

\* JSON.parse of a completion text: the value, or ok = FALSE when it throws
ParseJSON(text) ==
    CASE text = "null" -> [ok |-> TRUE, value |-> JsNull]
      [] text = "42" -> [ok |-> TRUE, value |-> JsNumber]
      [] text = "[]" -> [ok |-> TRUE, value |-> JsArray]
      [] text = "{}" -> [ok |-> TRUE, value |-> Obj(EmptyMap)]
      [] text = "{\"data\":null,\"nextPrompt\":\"?\"}" ->
            [ok |-> TRUE, value |-> Reply(JsNull)]
      [] text = "{\"data\":{\"patientName\":\"J\",\"dob\":\"1\"},\"nextPrompt\":\"?\"}" ->
            [ok |-> TRUE, value |-> Reply(Obj(
                [patientName |-> Str(<<"J">>), dob |-> Str(<<"1">>)]))]
      [] text = "{\"data\":{\"email\":\"e\",\"phone\":\"5\",\"doctor\":\"d\",\"service\":\"s\"},\"nextPrompt\":\"?\"}" ->
            [ok |-> TRUE, value |-> Reply(Obj(
                [email |-> Str(<<"e">>), phone |-> Str(<<"5">>),
                 doctor |-> Str(<<"d">>), service |-> Str(<<"s">>)]))]
      [] text = "{\"data\":{\"time\":\"9\",\"status\":\"p\",\"action\":\"a\",\"chiefComplaint\":\"c\"},\"nextPrompt\":\"?\"}" ->
            [ok |-> TRUE, value |-> Reply(Obj(
                [time |-> Str(<<"9">>), status |-> Str(<<"p">>),
                 action |-> Str(<<"a">>), chiefComplaint |-> Str(<<"c">>)]))]
      [] text = "{\"data\":{\"patientName\":\"K\"},\"nextPrompt\":\"?\"}" ->
            [ok |-> TRUE, value |-> Reply(Obj([patientName |-> Str(<<"K">>)]))]
      [] text = "{\"data\":{\"dob\":\"\"}}" ->
            [ok |-> TRUE, value |-> Obj([data |-> Obj([dob |-> Str(<< >>)])])]
      [] text = AllFieldsText ->
            [ok |-> TRUE, value |-> Reply(Obj(
                [patientName |-> Str(<<"J">>), dob |-> Str(<<"1">>),
                 email |-> Str(<<"e">>), phone |-> Str(<<"5">>),
                 doctor |-> Str(<<"d">>), service |-> Str(<<"s">>),
                 time |-> Str(<<"9">>), status |-> Str(<<"p">>),
                 action |-> Str(<<"a">>), chiefComplaint |-> Str(<<"c">>)]))]
      [] OTHER -> [ok |-> FALSE, value |-> JsUndefined]

\* how the awaited completions.create ends: it rejects (network error, API
\* error, timeout), or resolves with a completion that has no choices, or with
\* a text
CompletionOutcomes ==
    {[kind |-> "rejected", text |-> ""], [kind |-> "nochoices", text |-> ""]}
    \cup [kind : {"text"}, text : CompletionTexts]

\* the idle sweep: sessions idle for more than IdleThreshold are deleted by a
\* timer that fires every SweepPeriod (milliseconds)
IdleThreshold == 15 * 60 * 1000
SweepPeriod == 60 * 1000

\* the function's timeout: an invocation does not outlive it (milliseconds)
FunctionTimeout == 30 * 1000

---------------------------------------------------------------------------
(* Session objects *)

NoRef == 0

\* a heap cell no reference leads to
FreeObj == [step |-> 0, data |-> EmptyMap, lastActive |-> 0]

\* { step: 0, data: {} }; the slot handler adds lastActive: Date.now() (its
\* `started` field is never read), the cursor handler has no lastActive (0 here)
NewSession == [step |-> 0, data |-> EmptyMap, lastActive |-> 0]

\* a handler that does not stamp the session
TouchSkipped(session) == session

\* session.lastActive = Date.now()
Touch(session) == [session EXCEPT !.lastActive = now]

\* the references the program still holds: the session map's and the local
\* `session` of every invocation in flight
Reachable(s, q) ==
    ({s[k] : k \in DOMAIN s} \cup {q[r].session : r \in DOMAIN q}) \ {NoRef}

\* an allocation that hands out a cell still in use
NewRefShared(h, s, q) == CHOOSE o \in DOMAIN h : \A p \in DOMAIN h : o <= p

\* the cell a new object literal gets
NewRef(h, s, q) ==
    CHOOSE o \in DOMAIN h :
        /\ o \notin Reachable(s, q)
        /\ \A p \in DOMAIN h : p \notin Reachable(s, q) => o <= p

\* garbage collection: an object nothing refers to is gone
Collect(h, s, q) ==
    [o \in DOMAIN h |-> IF o \in Reachable(s, q) THEN h[o] ELSE FreeObj]

NoSession == [step |-> -1, data |-> EmptyMap]

\* the slot-filling state of a session object: its cursor and collected fields
State(session) == [step |-> session.step, data |-> session.data]

\* the session map as a caller can observe it: per key, the session's state
View(s, h) ==
    [k \in DOMAIN s |-> IF s[k] = NoRef THEN NoSession ELSE State(h[s[k]])]

---------------------------------------------------------------------------
(* Invocations and responses *)

NoOutcome == [kind |-> "none", text |-> ""]

NoEvent == [kind |-> "none", sessionId |-> "", message |-> JsUndefined]

\* pc: where the handler stands; event: its input; session, doc: its locals;
\* awaitMongo, awaitPinecone: the pending initialisations its Promise.all awaits;
\* before, insertedBefore: the session map and the store when it was invoked;
\* startedAt: when it was invoked;
\* outcome: how its completion call ended; insert: how its insertOne ended;
\* retry: it repeats the event of the invocation before it, whose insertOne failed;
\* repeat, prevOutcome: it repeats the event of the invocation before it, which
\* was answered with a collecting reply after the completion call ended so
IdleReq ==
    [pc |-> "idle", event |-> NoEvent, session |-> NoRef, doc |-> EmptyMap,
     before |-> [k \in SessionIds |-> NoSession], insertedBefore |-> 0,
     startedAt |-> 0, awaitMongo |-> FALSE, awaitPinecone |-> FALSE,
     outcome |-> NoOutcome, insert |-> "none", retry |-> FALSE,
     repeat |-> FALSE, prevOutcome |-> NoOutcome]

NoResp == [statusCode |-> 0, body |-> EmptyMap]

Response(status, body) == [statusCode |-> status, body |-> body]

\* the handler is over: its locals are dropped
Finished(rq) ==
    [rq EXCEPT !.pc = "idle", !.session = NoRef, !.doc = EmptyMap, !.startedAt = 0]

\* one segment's outcome: the session map, the heap, the invocation and the
\* response it returned (NoResp while it awaits)
Outcome(s, h, rq, out) == [sessions |-> s, heap |-> h, req |-> rq, resp |-> out]

Commit(r, o) ==
    /\ sessions' = o.sessions
    /\ req' = [req EXCEPT ![r] = o.req]
    /\ heap' = Collect(o.heap, o.sessions, [req EXCEPT ![r] = o.req])
    /\ resp' = [resp EXCEPT ![r] = o.resp]

InsertFailed(r) == req[r].pc = "idle" /\ req[r].insert = "failed"

\* the invocation in slot r has returned a collecting reply (step, totalSteps)
Collecting(r) ==
    /\ req[r].pc = "idle"
    /\ resp[r].statusCode = 200
    /\ "step" \in DOMAIN resp[r].body

Started(r, ev) ==
    [IdleReq EXCEPT !.event = ev, !.before = View(sessions, heap),
                    !.insertedBefore = insertedDocs, !.startedAt = now,
                    !.retry = (InsertFailed(r) /\ req[r].event = ev),
                    !.repeat = (Collecting(r) /\ req[r].event = ev),
                    !.prevOutcome = IF Collecting(r) /\ req[r].event = ev
                                    THEN req[r].outcome ELSE NoOutcome]

\* a cancellation or booking that forgets to delete the session
DeleteSessionSkipped(s, sessionId) == s

\* delete sessions[sessionId]
DeleteSession(s, sessionId) == [s EXCEPT ![sessionId] = NoRef]

\* a handler that clears the session whether or not the insert succeeded
AfterInsertAlwaysDeletes(s, sessionId, ok) == [s EXCEPT ![sessionId] = NoRef]

\* `await collection.insertOne(doc); delete sessions[sessionId];`: the delete
\* runs only when the insert did not throw
AfterInsert(s, sessionId, ok) == IF ok THEN DeleteSession(s, sessionId) ELSE s

---------------------------------------------------------------------------
(* The slot handler: src/src/handlers/chat.js, lines 1-184 *)

SlotError(message) ==
    Response(500, [error |-> "Database connection error", message |-> message])

\* { ...session.data, status: 'booked', action: 'appointment', createdAt, sessionId }
SlotDoc(data, sessionId) ==
    Spread(data, [status |-> Str(<<"b", "o", "o", "k", "e", "d">>),
                  action |-> Str(<<"a", "p", "p", "o", "i", "n", "t", "m", "e", "n", "t">>),
                  createdAt |-> JsDate,
                  sessionId |-> Str(<<sessionId>>)])

\* lines 132-160, from the body parse to the handler's next await or return
SlotTurn(rq, s, h, q) ==
    LET ev == rq.event
        sid == ev.sessionId
        ref == IF s[sid] # NoRef THEN s[sid] ELSE NewRef(h, s, q)
        s1 == [s EXCEPT ![sid] = ref]
        h0 == IF s[sid] # NoRef THEN h ELSE [h EXCEPT ![ref] = NewSession]
        h1 == [h0 EXCEPT ![ref] = Touch(h0[ref])]
        data == h1[ref].data
    IN  IF ev.kind = "badjson" THEN
            Outcome(s, h, Finished(rq), SlotError("Unexpected token"))
        ELSE IF ev.kind = "nobody" THEN
            Outcome(s, h, Finished(rq), SlotError("Cannot destructure property"))
        ELSE IF sid = "" \/ ~Truthy(ev.message) THEN
            Outcome(s, h, Finished(rq),
                    Response(400, [error |-> "sessionId and message are required."]))
        ELSE IF MissingFields(data) = {} THEN
            IF TestCI(YesPattern, ev.message.s) THEN
                Outcome(s1, h1,
                        [rq EXCEPT !.pc = "insert", !.session = ref,
                                   !.doc = SlotDoc(data, sid)],
                        NoResp)
            ELSE IF TestCI(NoPattern, ev.message.s) THEN
                Outcome(DeleteSession(s1, sid), h1,
                        Finished(rq),
                        Response(200,
                            [response |-> "Appointment cancelled. If you want to start over, just say hi!",
                             completed |-> FALSE]))
            ELSE
                \* PROMPTS and STEPS are defined nowhere: a ReferenceError
                Outcome(s1, h1, Finished(rq),
                        SlotError("PROMPTS is not defined"))
        ELSE
            Outcome(s1, h1, [rq EXCEPT !.pc = "complete", !.session = ref], NoResp)

\* the handler is invoked: initMongo (lines 52-63), then the turn
SlotInvoke(r, ev) ==
    /\ deployed = "slot"
    /\ req[r].pc = "idle"
    /\ insertedDocs < MaxInserts
    /\ budget[ev.sessionId] # 0
    /\ budget' = [budget EXCEPT ![ev.sessionId] = IF @ > 0 THEN @ - 1 ELSE @]
    /\ UNCHANGED <<deployed, cachedCollection, awsCollection, mongoPending,
                   pineconeClient, pineconePending, insertedDocs,
                   clockVars, prodVars>>
    /\ IF cachedCollection THEN
            /\ Commit(r, SlotTurn(Started(r, ev), sessions, heap, req))
            /\ UNCHANGED mongoClient
       ELSE IF ~mongoClient THEN
            /\ mongoClient' = TRUE
            /\ Commit(r, Outcome(sessions, heap,
                                 [Started(r, ev) EXCEPT !.pc = "connect"], NoResp))
       ELSE
            \* initMongo returns undefined, which the handler destructures
            /\ Commit(r, Outcome(sessions, heap, Finished(Started(r, ev)),
                                 SlotError("Cannot destructure property")))
            /\ UNCHANGED mongoClient

\* await mongoClient.connect() ends
SlotConnected(r, ok) ==
    /\ deployed = "slot"
    /\ req[r].pc = "connect"
    /\ UNCHANGED <<deployed, mongoClient, awsCollection, mongoPending,
                   pineconeClient, pineconePending, insertedDocs,
                   budget, clockVars, prodVars>>
    /\ IF ok THEN
            /\ cachedCollection' = TRUE
            /\ Commit(r, SlotTurn(req[r], sessions, heap, req))
       ELSE
            /\ Commit(r, Outcome(sessions, heap, Finished(req[r]),
                                 SlotError("connect failed")))
            /\ UNCHANGED cachedCollection

\* await collection.insertOne(doc) ends (lines 148-150)
SlotInserted(r, ok) ==
    /\ deployed = "slot"
    /\ req[r].pc = "insert"
    /\ UNCHANGED <<deployed, mongoClient, cachedCollection, awsCollection,
                   mongoPending, pineconeClient, pineconePending,
                   budget, clockVars, prodVars>>
    /\ IF ok THEN
            /\ insertedDocs' = insertedDocs + 1
            /\ Commit(r, Outcome(AfterInsert(sessions, req[r].event.sessionId, ok),
                                 heap, Finished([req[r] EXCEPT !.insert = "stored"]),
                                 Response(200,
                                    [response |-> "Your appointment is confirmed! Thank you.",
                                     appointment |-> req[r].doc,
                                     completed |-> TRUE])))
       ELSE
            /\ Commit(r, Outcome(AfterInsert(sessions, req[r].event.sessionId, ok),
                                 heap, Finished([req[r] EXCEPT !.insert = "failed"]),
                                 SlotError("insert failed")))
            /\ UNCHANGED insertedDocs

Fallback ==
    Obj([data |-> Obj(EmptyMap),
         nextPrompt |-> Str(<<"S", "o", "r", "r", "y">>)])

\* lines 92-100 of handleAIConversation: the parsed text, or the fallback when
\* reading or parsing the text throws
Extracted(outcome) ==
    IF outcome.kind = "text" /\ ParseJSON(outcome.text).ok
    THEN ParseJSON(outcome.text).value
    ELSE Fallback

\* a merge with the operands swapped, { ...data, ...session.data }: first write wins
MergeFirstWriteWins(old, data) == Spread(SpreadProps(data), old)

\* session.data = { ...session.data, ...data }
Merge(old, data) == Spread(old, SpreadProps(data))

\* step: requiredFields.length - stillMissing.length
SlotStep(data) == Len(requiredFields) - Cardinality(MissingFields(data))

\* lines 165-169; JSON.stringify drops `response` when nextPrompt is undefined
SlotReply(nextPrompt, step) ==
    IF nextPrompt = JsUndefined
    THEN Response(200, [step |-> step, totalSteps |-> Len(requiredFields)])
    ELSE Response(200, [response |-> nextPrompt, step |-> step,
                        totalSteps |-> Len(requiredFields)])

\* await openai.chat.completions.create ends (lines 85-101, 160-169)
SlotCompleted(r, outcome) ==
    /\ deployed = "slot"
    /\ req[r].pc = "complete"
    /\ UNCHANGED <<deployed, mongoClient, cachedCollection, awsCollection,
                   mongoPending, pineconeClient, pineconePending, insertedDocs,
                   budget, clockVars, prodVars>>
    /\ LET parsed == Extracted(outcome)
           ref == req[r].session
           merged == Merge(heap[ref].data, Prop(parsed, "data"))
           rq == [req[r] EXCEPT !.outcome = outcome]
       IN  IF outcome.kind = "rejected" THEN
                Commit(r, Outcome(sessions, heap, Finished(rq),
                                  SlotError("completion failed")))
           ELSE IF parsed.t = "null" THEN
                \* const { data, nextPrompt } = null
                Commit(r, Outcome(sessions, heap, Finished(rq),
                                  SlotError("Cannot destructure property")))
           ELSE
                Commit(r, Outcome(sessions,
                                  [heap EXCEPT ![ref].data = merged],
                                  Finished(rq),
                                  SlotReply(Prop(parsed, "nextPrompt"), SlotStep(merged))))

---------------------------------------------------------------------------
(* The cursor handler: src/unnamed/part_001 *)

CursorError(message) ==
    Response(500, [error |-> "Internal server error", message |-> message])

\* a handler that saves the message as the field the cursor is about to ask for
SaveCurrentField(session, message) ==
    IF session.step < Len(appointmentFields)
    THEN [session EXCEPT
            !.data = Spread(session.data,
                            [k \in {appointmentFields[session.step + 1]} |-> message])]
    ELSE session

\* lines 246-249: the message is saved as the field the previous reply asked for
SavePrevField(session, message) ==
    IF session.step > 0 /\ session.step <= Len(appointmentFields)
    THEN [session EXCEPT
            !.data = Spread(session.data,
                            [k \in {appointmentFields[session.step]} |-> message])]
    ELSE session

\* { ...session.data, createdAt: new Date(), sessionId: sessionId }
CursorDoc(data, sessionId) ==
    Spread(data, [createdAt |-> JsDate, sessionId |-> Str(<<sessionId>>)])

\* lines 224-282, from the body parse to the handler's next await or return
CursorTurn(rq, s, h, q, aws) ==
    LET ev == rq.event
        sid == ev.sessionId
        ref == IF s[sid] # NoRef THEN s[sid] ELSE NewRef(h, s, q)
        s1 == [s EXCEPT ![sid] = ref]
        h1 == IF s[sid] # NoRef THEN h ELSE [h EXCEPT ![ref] = NewSession]
        h2 == [h1 EXCEPT ![ref] = SavePrevField(h1[ref], ev.message)]
    IN  IF ev.kind = "badjson" THEN
            Outcome(s, h, Finished(rq), CursorError("Unexpected token"))
        ELSE IF ev.kind = "nobody" THEN
            Outcome(s, h, Finished(rq), CursorError("Cannot destructure property"))
        ELSE IF sid = "" \/ ~Truthy(ev.message) THEN
            Outcome(s, h, Finished(rq),
                    Response(400, [error |-> "sessionId and message are required."]))
        ELSE IF h2[ref].step >= Len(appointmentFields) THEN
            IF aws THEN
                Outcome(s1, h2,
                        [rq EXCEPT !.pc = "insert", !.session = ref,
                                   !.doc = CursorDoc(h2[ref].data, sid)],
                        NoResp)
            ELSE
                \* awsCollection is undefined
                Outcome(s1, h2, Finished(rq),
                        CursorError("Cannot read properties of undefined"))
        ELSE
            Outcome(s1, h2, [rq EXCEPT !.pc = "complete", !.session = ref], NoResp)

\* the handler is invoked: Promise.all([initOpenAI(), initPinecone(),
\* initMongo()]) (lines 25-31, 166-173, 222); an initialiser whose client is
\* already assigned returns at once
CursorInvoke(r, ev) ==
    /\ deployed = "cursor"
    /\ req[r].pc = "idle"
    /\ insertedDocs < MaxInserts
    /\ budget[ev.sessionId] # 0
    /\ budget' = [budget EXCEPT ![ev.sessionId] = IF @ > 0 THEN @ - 1 ELSE @]
    /\ UNCHANGED <<deployed, cachedCollection, awsCollection, insertedDocs,
                   clockVars, prodVars>>
    /\ mongoClient' = TRUE
    /\ pineconeClient' = TRUE
    /\ mongoPending' = (mongoPending \/ ~mongoClient)
    /\ pineconePending' = (pineconePending \/ ~pineconeClient)
    /\ IF mongoClient /\ pineconeClient THEN
            Commit(r, CursorTurn(Started(r, ev), sessions, heap, req, awsCollection))
       ELSE
            Commit(r, Outcome(sessions, heap,
                              [Started(r, ev) EXCEPT !.pc = "init",
                                                     !.awaitMongo = ~mongoClient,
                                                     !.awaitPinecone = ~pineconeClient],
                              NoResp))

\* one of the promises of Promise.all settles: the handler goes on when the last
\* one is fulfilled and fails when one is rejected
InitSettled(r, rq, ok, aws) ==
    IF ~ok THEN
        Commit(r, Outcome(sessions, heap, Finished(rq), CursorError("init failed")))
    ELSE IF rq.awaitMongo \/ rq.awaitPinecone THEN
        Commit(r, Outcome(sessions, heap, rq, NoResp))
    ELSE
        Commit(r, CursorTurn(rq, sessions, heap, req, aws))

\* await mongoClient.connect() ends (lines 169-171)
MongoSettled(ok) ==
    /\ deployed = "cursor"
    /\ mongoPending
    /\ mongoPending' = FALSE
    /\ awsCollection' = ok
    /\ UNCHANGED <<deployed, mongoClient, cachedCollection, pineconeClient,
                   pineconePending, insertedDocs, budget, clockVars, prodVars>>
    /\ IF \E r \in DOMAIN req : req[r].pc = "init" /\ req[r].awaitMongo
       THEN \E r \in DOMAIN req :
                /\ req[r].pc = "init" /\ req[r].awaitMongo
                /\ InitSettled(r, [req[r] EXCEPT !.awaitMongo = FALSE], ok, ok)
       ELSE UNCHANGED <<sessions, heap, req, resp>>

\* initPinecone ends (lines 31-162)
PineconeSettled(ok) ==
    /\ deployed = "cursor"
    /\ pineconePending
    /\ pineconePending' = FALSE
    /\ UNCHANGED <<deployed, mongoClient, cachedCollection, awsCollection,
                   mongoPending, pineconeClient, insertedDocs,
                   budget, clockVars, prodVars>>
    /\ IF \E r \in DOMAIN req : req[r].pc = "init" /\ req[r].awaitPinecone
       THEN \E r \in DOMAIN req :
                /\ req[r].pc = "init" /\ req[r].awaitPinecone
                /\ InitSettled(r, [req[r] EXCEPT !.awaitPinecone = FALSE], ok,
                               awsCollection)
       ELSE UNCHANGED <<sessions, heap, req, resp>>

\* await awsCollection.insertOne(appointmentData) ends (lines 260-263)
CursorInserted(r, ok) ==
    /\ deployed = "cursor"
    /\ req[r].pc = "insert"
    /\ UNCHANGED <<deployed, mongoClient, cachedCollection, awsCollection,
                   mongoPending, pineconeClient, pineconePending,
                   budget, clockVars, prodVars>>
    /\ IF ok THEN
            /\ insertedDocs' = insertedDocs + 1
            /\ Commit(r, Outcome(AfterInsert(sessions, req[r].event.sessionId, ok),
                                 heap, [req[r] EXCEPT !.pc = "confirm", !.insert = "stored"],
                                 NoResp))
       ELSE
            /\ Commit(r, Outcome(AfterInsert(sessions, req[r].event.sessionId, ok),
                                 heap, Finished([req[r] EXCEPT !.insert = "failed"]),
                                 CursorError("insert failed")))
            /\ UNCHANGED insertedDocs

\* the booking turn's await getAIResponse(...) ends (lines 263-278)
CursorConfirmed(r, ok) ==
    /\ deployed = "cursor"
    /\ req[r].pc = "confirm"
    /\ UNCHANGED <<deployed, mongoClient, cachedCollection, awsCollection,
                   mongoPending, pineconeClient, pineconePending, insertedDocs,
                   budget, clockVars, prodVars>>
    /\ Commit(r, Outcome(sessions, heap, Finished(req[r]),
                         IF ok
                         THEN Response(200, [response |-> "aiResponse",
                                             appointment |-> req[r].doc,
                                             completed |-> TRUE])
                         ELSE CursorError("completion failed")))

\* session.step++
Advance(session) == [session EXCEPT !.step = session.step + 1]

\* a collecting turn's await getAIResponse(...) ends (lines 282-298)
CursorCompleted(r, ok) ==
    /\ deployed = "cursor"
    /\ req[r].pc = "complete"
    /\ UNCHANGED <<deployed, mongoClient, cachedCollection, awsCollection,
                   mongoPending, pineconeClient, pineconePending, insertedDocs,
                   budget, clockVars, prodVars>>
    /\ LET ref == req[r].session
           next == Advance(heap[ref])
       IN  IF ok THEN
                Commit(r, Outcome(sessions, [heap EXCEPT ![ref] = next],
                                  Finished(req[r]),
                                  Response(200, [response |-> "aiResponse",
                                                 step |-> next.step,
                                                 totalSteps |-> Len(appointmentFields)])))
           ELSE
                Commit(r, Outcome(sessions, heap, Finished(req[r]),
                                  CursorError("completion failed")))

---------------------------------------------------------------------------
(* The appointment utilities: src/unnamed/part_002 *)

WhiteSpace == {" ", "\t", "\n"}

RECURSIVE TrimStart(_)
TrimStart(s) ==
    IF s # << >> /\ Head(s) \in WhiteSpace THEN TrimStart(Tail(s)) ELSE s

RECURSIVE TrimEnd(_)
TrimEnd(s) ==
    IF s # << >> /\ s[Len(s)] \in WhiteSpace
    THEN TrimEnd(SubSeq(s, 1, Len(s) - 1))
    ELSE s

\* s.trim()
Trim(s) == TrimEnd(TrimStart(s))

\* /^[^\s@]+@[^\s@]+\.[^\s@]+$/.test(email): no white space, one "@" after at
\* least one character, and after it a "." with at least one character on
\* either side
IsValidEmail(email) ==
    /\ \A i \in DOMAIN email : email[i] \notin WhiteSpace
    /\ \E i \in 2..Len(email) :
        /\ email[i] = "@"
        /\ \A j \in DOMAIN email : email[j] = "@" => j = i
        /\ \E j \in (i + 2)..(Len(email) - 1) : email[j] = "."

\* appointmentData.field
Field(appointmentData, field) ==
    IF field \in DOMAIN appointmentData THEN appointmentData[field] ELSE JsUndefined

\* the condition of each `if` of validateAppointmentData (the values are
\* strings or absent)
NameRejected(v) == ~Truthy(v) \/ Len(Trim(v.s)) < 2
EmailRejected(v) == ~Truthy(v) \/ ~IsValidEmail(v.s)
PhoneRejected(v) == ~Truthy(v) \/ Len(Trim(v.s)) < 10
ServiceRejected(v) == ~Truthy(v) \/ Len(Trim(v.s)) = 0
DateRejected(v) == ~Truthy(v)
TimeRejected(v) == ~Truthy(v)

\* a validator that stops at the first rule it finds violated
PushFirst(errors, rejected, message) ==
    IF rejected /\ errors = << >> THEN Append(errors, message) ELSE errors

\* errors.push(message) if the condition holds
Push(errors, rejected, message) ==
    IF rejected THEN Append(errors, message) ELSE errors

\* the errors validateAppointmentData collects, in the order of its checks
AppointmentErrors(appointmentData) ==
    LET e1 == Push(<< >>, NameRejected(Field(appointmentData, "name")),
                   "Name must be at least 2 characters long")
        e2 == Push(e1, EmailRejected(Field(appointmentData, "email")),
                   "Valid email is required")
        e3 == Push(e2, PhoneRejected(Field(appointmentData, "phone")),
                   "Valid phone number is required")
        e4 == Push(e3, ServiceRejected(Field(appointmentData, "service")),
                   "Service type is required")
        e5 == Push(e4, DateRejected(Field(appointmentData, "preferredDate")),
                   "Preferred date is required")
    IN  Push(e5, TimeRejected(Field(appointmentData, "preferredTime")),
             "Preferred time is required")

\* validateAppointmentData(appointmentData)
ValidateAppointmentData(appointmentData) ==
    LET errors == AppointmentErrors(appointmentData)
    IN  [valid |-> Len(errors) = 0, errors |-> errors]

---------------------------------------------------------------------------
(* The production handler: src/src/handlers/chat.js, lines 185-611 *)

RATE_LIMIT_WINDOW == 60000
RATE_LIMIT_MAX_REQUESTS == 10

\* map.set(key, value) on a Map held as a function
Put(map, key, value) ==
    [x \in (DOMAIN map) \cup {key} |-> IF x = key THEN value ELSE map[x]]

\* the request times the cache holds for a session ([] once isRateLimited has
\* set the missing entry)
Requests(cache, sessionId) ==
    IF sessionId \in DOMAIN cache THEN cache[sessionId] ELSE << >>

\* requests.filter(time => time > windowStart)
RecentRequests(requests, t) ==
    SelectSeq(requests, LAMBDA time : time > t - RATE_LIMIT_WINDOW)

\* a limiter that lets one request too many through
IsRateLimitedOffByOne(cache, sessionId, t) ==
    Len(RecentRequests(Requests(cache, sessionId), t)) > RATE_LIMIT_MAX_REQUESTS

\* isRateLimited(sessionId): its result
IsRateLimited(cache, sessionId, t) ==
    Len(RecentRequests(Requests(cache, sessionId), t)) >= RATE_LIMIT_MAX_REQUESTS

\* a limiter that records the requests it rejects as well
RateLimitedRecordsAll(cache, sessionId, t) ==
    Put(cache, sessionId, Append(RecentRequests(Requests(cache, sessionId), t), t))

\* isRateLimited(sessionId): the cache it leaves
RateLimited(cache, sessionId, t) ==
    IF IsRateLimited(cache, sessionId, t)
    THEN Put(cache, sessionId, Requests(cache, sessionId))
    ELSE Put(cache, sessionId,
             Append(RecentRequests(Requests(cache, sessionId), t), t))

\* validateInput(sessionId, message)
ValidateInput(sessionId, message) ==
    IF ~Truthy(sessionId) \/ sessionId.t # "string" THEN
        [valid |-> FALSE, error |-> "sessionId must be a non-empty string"]
    ELSE IF ~Truthy(message) \/ message.t # "string" THEN
        [valid |-> FALSE, error |-> "message must be a non-empty string"]
    ELSE IF Len(sessionId.s) > 100 THEN
        [valid |-> FALSE, error |-> "sessionId too long (max 100 characters)"]
    ELSE IF Len(message.s) > 4000 THEN
        [valid |-> FALSE, error |-> "message too long (max 4000 characters)"]
    ELSE
        [valid |-> TRUE, error |-> ""]

\* the production handler is not running
NoCall ==
    [pc |-> "idle", event |-> [httpMethod |-> "", body |-> "none",
                               sessionId |-> JsUndefined, message |-> JsUndefined],
     startedAt |-> 0, validated |-> FALSE, limited |-> FALSE, book |-> FALSE,
     finalReply |-> << >>]

\* validateAppointmentData has not been called
NoValidation == [valid |-> FALSE, errors |-> <<"none">>]

\* the handler's promise rejects: an error thrown inside its catch block
Thrown(message) == [statusCode |-> -1, body |-> [thrown |-> message]]

\* an error message, as the set of the substrings the catch block looks for
\* that it includes
Needles == {"OpenAI API timeout", "rate limit", "authentication", "quota", "MongoDB"}

\* lines 569-610: the catch block's response
ProdError(error) ==
    IF "OpenAI API timeout" \in error THEN
        Response(408, [error |-> "Request timeout - please try again"])
    ELSE IF "rate limit" \in error THEN
        Response(429, [error |-> "OpenAI rate limit exceeded - please try again later"])
    ELSE IF "authentication" \in error THEN
        Response(401, [error |-> "OpenAI authentication failed"])
    ELSE IF "quota" \in error THEN
        Response(429, [error |-> "OpenAI quota exceeded"])
    ELSE IF "MongoDB" \in error THEN
        Response(503, [error |-> "Database service temporarily unavailable"])
    ELSE
        Response(500, [error |-> "Internal server error"])

\* the response of the rate-limit branch (lines 386-396)
TooManyRequests ==
    Response(429, [error |-> "Rate limit exceeded. Please wait before sending another message.",
                   retryAfter |-> 60])

\* the production handler returns
ProdReturn(c, out) ==
    /\ call' = [c EXCEPT !.pc = "idle", !.startedAt = 0]
    /\ reply' = out

\* the production handler goes on to its next await
ProdAwait(c, pc) ==
    /\ call' = [c EXCEPT !.pc = pc]
    /\ reply' = NoResp

\* the handler is invoked (lines 322-407): up to its return or its first await
ProdInvoke(client, ev) ==
    /\ deployed = "prod"
    /\ call.pc = "idle"
    /\ budget[client] # 0
    /\ budget' = [budget EXCEPT ![client] = IF @ > 0 THEN @ - 1 ELSE @]
    /\ UNCHANGED <<deployed, sessions, heap, mongoClient, cachedCollection,
                   awsCollection, mongoPending, pineconeClient, pineconePending,
                   insertedDocs, req, resp, clockVars,
                   openaiKey, chats, appointments, validateVars, storeVars>>
    /\ LET c == [NoCall EXCEPT !.event = ev, !.startedAt = now]
           \* const { sessionId, message } = body
           sessionId == IF ev.body = "object" THEN ev.sessionId ELSE JsUndefined
           message == IF ev.body = "object" THEN ev.message ELSE JsUndefined
           input == ValidateInput(sessionId, message)
       IN  IF ev.body \in {"badjson", "null"} THEN
                \* line 328 throws, and so does line 575 in the catch block
                /\ ProdReturn(c, Thrown(IF ev.body = "badjson"
                                        THEN "Unexpected token"
                                        ELSE "Cannot read properties of null"))
                /\ UNCHANGED <<rateLimitCache, admitted>>
           ELSE IF ev.httpMethod = "OPTIONS" THEN
                /\ ProdReturn(c, Response(200, EmptyMap))
                /\ UNCHANGED <<rateLimitCache, admitted>>
           ELSE IF ev.httpMethod # "POST" THEN
                /\ ProdReturn(c, Response(405, [error |-> "Method not allowed"]))
                /\ UNCHANGED <<rateLimitCache, admitted>>
           ELSE IF ~input.valid THEN
                /\ ProdReturn(c, Response(400, [error |-> input.error]))
                /\ UNCHANGED <<rateLimitCache, admitted>>
           ELSE
                /\ rateLimitCache' = RateLimited(rateLimitCache, sessionId, now)
                /\ IF IsRateLimited(rateLimitCache, sessionId, now) THEN
                        /\ ProdReturn([c EXCEPT !.validated = TRUE, !.limited = TRUE],
                                      TooManyRequests)
                        /\ UNCHANGED admitted
                   ELSE
                        /\ admitted' = Put(admitted, sessionId,
                                           Append(Requests(admitted, sessionId), now))
                        /\ IF ~openaiKey THEN
                                ProdReturn([c EXCEPT !.validated = TRUE],
                                           Response(500,
                                             [error |-> "OpenAI API key not configured"]))
                           ELSE
                                ProdAwait([c EXCEPT !.validated = TRUE], "saveUser")

\* what an await of the production handler leaves unchanged; a collaborator
\* fails only while the environment still has failures to produce
ProdFrame(failed) ==
    /\ UNCHANGED <<deployed, sessions, heap, mongoClient, cachedCollection,
                   awsCollection, mongoPending, pineconeClient, pineconePending,
                   insertedDocs, req, resp, clockVars, openaiKey, rateLimitCache,
                   admitted, validateVars, storeVars>>
    /\ IF failed THEN
            /\ budget.faults > 0
            /\ budget' = [budget EXCEPT !.faults = @ - 1]
       ELSE
            UNCHANGED budget

\* the chats document saveMessage inserts (lines 295-300)
ChatMessage(sessionId, role) == [sessionId |-> sessionId, role |-> role]

\* chatsCollection.insertOne(message) on the collection, a bag of documents
InsertOne(collection, document) == collection (+) SetToBag({document})

\* await saveMessage(sessionId, 'user', message) ends (line 410); sessionCache
\* has no entry, as nothing calls getSessionHistory
ProdUserSaved(error) ==
    /\ deployed = "prod"
    /\ call.pc = "saveUser"
    /\ ProdFrame(error # {"ok"})
    /\ UNCHANGED appointments
    /\ IF error = {"ok"} THEN
            /\ chats' = InsertOne(chats, ChatMessage(call.event.sessionId, "user"))
            /\ ProdAwait(call, "embed")
       ELSE
            /\ ProdReturn(call, ProdError(error))
            /\ UNCHANGED chats

\* the awaits of lines 414-445 end: the two embeddings, storeConversationEmbedding,
\* getConversationHistory and the three searches
ProdContextReady(error) ==
    /\ deployed = "prod"
    /\ call.pc = "embed"
    /\ ProdFrame(error # {"ok"})
    /\ UNCHANGED <<chats, appointments>>
    /\ IF error = {"ok"} THEN
            ProdAwait(call, "complete")
       ELSE
            ProdReturn(call, ProdError(error))

\* messages that carry appointment details
mBook == Str(<<"b", "o", "o", "k", " ", "c", "h", "e", "c", "k", "u", "p", " ", "f", "o", "r", " ", "m", "a", "y", " ", "5", " ", "a", "t", " ", "9", ":", "3", "0", "a", "m", ",", " ", "i", " ", "a", "m", " ", "a", "l", ",", " ", "a", "l", "@", "x", ".", "c", "o", " ", "5", "5", "5", "-", "5", "5", "5", "-", "5", "5", "5", "5">>)
mBookEmail == Str(<<"b", "o", "o", "k", " ", "a", "l", "@", "x", ".", "c", "o">>)

\* extractAppointmentInfo(message) for the messages of the model: the patterns
\* of lines 47-80 match the two messages above as listed, and nothing in a
\* message without white space, digit and "@"
ExtractAppointmentInfo(message) ==
    IF message = mBook THEN
        [name |-> Str(<<"a", "l">>),
         email |-> Str(<<"a", "l", "@", "x", ".", "c", "o">>),
         phone |-> Str(<<"5", "5", "5", "5", "5", "5", "5", "5", "5", "5">>),
         service |-> Str(<<"c", "h", "e", "c", "k", "u", "p">>),
         preferredDate |-> Str(<<"m", "a", "y", " ", "5">>),
         preferredTime |-> Str(<<"9", ":", "3", "0", "a", "m">>)]
    ELSE IF message = mBookEmail THEN
        [email |-> Str(<<"a", "l", "@", "x", ".", "c", "o">>)]
    ELSE
        EmptyMap

\* lines 519-522, given whether aiReply includes 'confirm'
WantsToConfirm(confirms, message) ==
    \/ confirms
    \/ TestCI(<<"c", "o", "n", "f", "i", "r", "m">>, message.s)
    \/ TestCI(<<"b", "o", "o", "k">>, message.s)
    \/ TestCI(<<"s", "c", "h", "e", "d", "u", "l", "e">>, message.s)

\* a reply that names the first validation error only
NeedMoreInformationFirst(errors) ==
    <<"I need a bit more information to book your appointment. Please provide: ",
      errors[1]>>

\* the finalReply of line 540: the sentence followed by validation.errors
\* joined by ', ', as the list of its parts
NeedMoreInformation(errors) ==
    <<"I need a bit more information to book your appointment. Please provide: ">>
        \o errors

\* the Promise.race of lines 493-508 ends: with an error, with a completion
\* without choices, or with a reply that includes 'confirm' or does not; then
\* lines 510-535 up to the next await
ProdCompleted(error, choices, confirms) ==
    /\ deployed = "prod"
    /\ call.pc = "complete"
    /\ ProdFrame(error # {"ok"} \/ ~choices)
    /\ UNCHANGED <<chats, appointments>>
    /\ LET extractedAppointmentInfo == ExtractAppointmentInfo(call.event.message)
           hasAppointmentInfo == DOMAIN extractedAppointmentInfo # {}
       IN  IF error # {"ok"} THEN
                ProdReturn(call, ProdError(error))
           ELSE IF ~choices THEN
                \* completion.choices[0] is undefined
                ProdReturn(call, ProdError({}))
           ELSE IF WantsToConfirm(confirms, call.event.message) /\ hasAppointmentInfo THEN
                LET checked == ValidateAppointmentData(extractedAppointmentInfo)
                IN  IF checked.valid THEN
                        ProdAwait(call, "create")
                    ELSE
                        ProdAwait([call EXCEPT !.finalReply =
                                       NeedMoreInformation(checked.errors)],
                                  "saveReply")
           ELSE
                \* let finalReply = aiReply
                ProdAwait([call EXCEPT !.finalReply = <<"aiReply">>], "saveReply")

\* await createAppointment(extractedAppointmentInfo) ends (line 533): the
\* function of part_002 lines 115-132 builds an object and rejects nothing
ProdAppointmentCreated ==
    /\ deployed = "prod"
    /\ call.pc = "create"
    /\ ProdFrame(FALSE)
    /\ UNCHANGED chats
    /\ appointments' = appointments + 1
    /\ ProdAwait([call EXCEPT !.book = TRUE,
                              !.finalReply = <<"confirmationMessage">>],
                 "saveReply")

\* await saveMessage(sessionId, 'assistant', finalReply) ends (lines 537-561)
ProdReplySaved(error) ==
    /\ deployed = "prod"
    /\ call.pc = "saveReply"
    /\ ProdFrame(error # {"ok"})
    /\ UNCHANGED appointments
    /\ IF error = {"ok"} THEN
            /\ chats' = InsertOne(chats, ChatMessage(call.event.sessionId, "assistant"))
            /\ ProdReturn(call, Response(200, [reply |-> call.finalReply,
                                               sessionId |-> call.event.sessionId,
                                               appointmentBooked |-> call.book]))
       ELSE
            /\ ProdReturn(call, ProdError(error))
            /\ UNCHANGED chats

\* nothing has used the session cache or the in-memory message store
StoreUnused ==
    /\ sessionCache = << >>
    /\ saved = << >>
    /\ store = << >>
    /\ returned = "nothing"

\* the production handler is not deployed, and validateAppointmentData not called
ProdUnused ==
    /\ openaiKey = FALSE
    /\ rateLimitCache = << >>
    /\ chats = EmptyBag
    /\ appointments = 0
    /\ admitted = << >>
    /\ call = NoCall
    /\ reply = NoResp
    /\ collected = EmptyMap
    /\ validation = NoValidation
    /\ StoreUnused

---------------------------------------------------------------------------
(* The specification: one invocation at a time, as a Lambda execution     *)
(* environment runs them                                                   *)

Init ==
    /\ deployed \in {"slot", "cursor"}
    /\ sessions = [k \in SessionIds |-> NoRef]
    /\ heap = [o \in 1..(Cardinality(SessionIds) + Cardinality(Slots)) |-> FreeObj]
    /\ mongoClient = FALSE
    /\ cachedCollection = FALSE
    /\ awsCollection = FALSE
    /\ mongoPending = FALSE
    /\ pineconeClient = FALSE
    /\ pineconePending = FALSE
    /\ insertedDocs = 0
    /\ req = [r \in Slots |-> IdleReq]
    /\ resp = [r \in Slots |-> NoResp]
    /\ budget = [k \in SessionIds \cup {""} |-> -1]
    /\ now = 0
    /\ nextSweep = SweepPeriod
    /\ swept = [k \in SessionIds |-> NoSession]
    /\ ProdUnused

Next ==
    \/ \E r \in Slots, ev \in Events(SlotMessages) : SlotInvoke(r, ev)
    \/ \E r \in Slots, ok \in BOOLEAN : SlotConnected(r, ok)
    \/ \E r \in Slots, ok \in BOOLEAN : SlotInserted(r, ok)
    \/ \E r \in Slots, outcome \in CompletionOutcomes : SlotCompleted(r, outcome)
    \/ \E r \in Slots, ev \in Events(CursorMessages) : CursorInvoke(r, ev)
    \/ \E ok \in BOOLEAN : MongoSettled(ok)
    \/ \E ok \in BOOLEAN : PineconeSettled(ok)
    \/ \E r \in Slots, ok \in BOOLEAN : CursorInserted(r, ok)
    \/ \E r \in Slots, ok \in BOOLEAN : CursorConfirmed(r, ok)
    \/ \E r \in Slots, ok \in BOOLEAN : CursorCompleted(r, ok)

Spec == Init /\ [][Next]_vars

---------------------------------------------------------------------------
(* The slot handler under its idle sweep (chat.js lines 118-126)           *)

Min(a, b) == IF a < b THEN a ELSE b

\* the invocations that have not returned yet
InFlight == {r \in DOMAIN req : req[r].pc # "idle"}

\* time passes: not beyond the moment the sweep's timer is due, and not beyond
\* the function timeout of an invocation in flight
Tick ==
    /\ now < nextSweep
    /\ now < MaxTime
    /\ now' = Min(now + TimeStep, nextSweep)
    /\ \A r \in InFlight : now' - req[r].startedAt <= FunctionTimeout
    /\ UNCHANGED <<handlerVars, nextSweep, swept, prodVars>>

\* a sweep that also deletes a session idle for exactly the threshold
IdleInclusive(session) == now - session.lastActive >= IdleThreshold

\* now - sessions[id].lastActive > 15 * 60 * 1000
Idle(session) == now - session.lastActive > IdleThreshold

\* for (const id in sessions) if (idle) delete sessions[id]
SweepSessions(s, h) ==
    [id \in DOMAIN s |->
        IF s[id] # NoRef /\ Idle(h[s[id]]) THEN NoRef ELSE s[id]]

\* the setInterval callback runs
Sweep ==
    /\ now = nextSweep
    /\ nextSweep' = nextSweep + SweepPeriod
    /\ sessions' = SweepSessions(sessions, heap)
    /\ heap' = Collect(heap, sessions', req)
    /\ swept' = [id \in DOMAIN swept |->
                    IF sessions[id] # NoRef /\ sessions'[id] = NoRef
                    THEN State(heap[sessions[id]]) ELSE swept[id]]
    /\ UNCHANGED <<deployed, mongoClient, cachedCollection, awsCollection,
                   mongoPending, pineconeClient, pineconePending, insertedDocs,
                   req, resp, budget, now, prodVars>>

\* the requests and completions of this specification
SweepEvents == [kind : {"object"}, sessionId : SessionIds, message : {mOk, mYes}]

SweepOutcomes ==
    {[kind |-> "rejected", text |-> ""]}
    \cup [kind : {"text"},
          text : {"{\"data\":{\"patientName\":\"J\",\"dob\":\"1\"},\"nextPrompt\":\"?\"}",
                  AllFieldsText}]

SweepInit == Init /\ deployed = "slot"

SweepNext ==
    \/ \E r \in Slots, ev \in SweepEvents : SlotInvoke(r, ev)
    \/ \E r \in Slots, ok \in BOOLEAN : SlotConnected(r, ok)
    \/ \E r \in Slots, ok \in BOOLEAN : SlotInserted(r, ok)
    \/ \E r \in Slots, outcome \in SweepOutcomes : SlotCompleted(r, outcome)
    \/ Tick
    \/ Sweep

SweepSpec == SweepInit /\ [][SweepNext]_vars

---------------------------------------------------------------------------
(* The handlers called again before an earlier call has returned: two      *)
(* invocations in one process, two session keys                            *)

ConcSlots == {1, 2}

\* the session keys of the specification with concurrent turns for one key, and
\* the requests their clients send to the slot and to the cursor handler
ConcSessionIds == {"s1"}
MaxSlotRequests == 4
MaxCursorRequests == 9

\* the session keys of the specification with turns for two keys; the client of
\* the second key sends MaxOtherRequests requests
CrossSessionIds == {"s1", "s2"}
MaxOtherRequests == 2

ConcOutcomes ==
    {[kind |-> "rejected", text |-> ""]}
    \cup [kind : {"text"},
          text : {"{\"data\":{\"patientName\":\"K\"},\"nextPrompt\":\"?\"}",
                  AllFieldsText}]

\* module load, with session keys `keys` and invocation slots `slots`
Loaded(keys, slots) ==
    /\ deployed \in {"slot", "cursor"}
    /\ sessions = [k \in keys |-> NoRef]
    /\ heap = [o \in 1..(Cardinality(keys) + Cardinality(slots)) |-> FreeObj]
    /\ mongoClient = FALSE
    /\ cachedCollection = FALSE
    /\ awsCollection = FALSE
    /\ mongoPending = FALSE
    /\ pineconeClient = FALSE
    /\ pineconePending = FALSE
    /\ insertedDocs = 0
    /\ req = [r \in slots |-> IdleReq]
    /\ resp = [r \in slots |-> NoResp]
    /\ now = 0
    /\ nextSweep = SweepPeriod
    /\ swept = [k \in keys |-> NoSession]
    /\ ProdUnused

\* the steps of the handlers, slot r being invoked with the keys keys[r]; the
\* completion calls end as `outcomes` (slot) and `oks` (cursor) say
Handle(keys, slots, outcomes, oks) ==
    \/ \E r \in slots :
        \E ev \in [kind : {"object"}, sessionId : keys[r], message : {mYes, mNo}] :
            SlotInvoke(r, ev)
    \/ \E r \in slots, ok \in BOOLEAN : SlotConnected(r, ok)
    \/ \E r \in slots, ok \in BOOLEAN : SlotInserted(r, ok)
    \/ \E r \in slots, outcome \in outcomes : SlotCompleted(r, outcome)
    \/ \E r \in slots :
        \E ev \in [kind : {"object"}, sessionId : keys[r], message : {mOk}] :
            CursorInvoke(r, ev)
    \/ \E ok \in BOOLEAN : MongoSettled(ok)
    \/ \E ok \in BOOLEAN : PineconeSettled(ok)
    \/ \E r \in slots, ok \in BOOLEAN : CursorInserted(r, ok)
    \/ \E r \in slots, ok \in oks : CursorConfirmed(r, ok)
    \/ \E r \in slots, ok \in oks : CursorCompleted(r, ok)

MaxFirstRequests ==
    IF deployed = "slot" THEN MaxSlotRequests ELSE MaxCursorRequests

ConcInit ==
    /\ Loaded(ConcSessionIds, ConcSlots)
    /\ budget = [k \in ConcSessionIds |-> MaxFirstRequests]

ConcNext ==
    Handle([r \in ConcSlots |-> ConcSessionIds], ConcSlots, ConcOutcomes, BOOLEAN)

ConcSpec == ConcInit /\ [][ConcNext]_vars

CrossInit ==
    /\ Loaded(CrossSessionIds, ConcSlots)
    /\ budget = [k \in CrossSessionIds |->
                    IF k = "s1" THEN MaxFirstRequests ELSE MaxOtherRequests]

\* each client waits for its reply before it sends its next request
CrossKeys == [r \in ConcSlots |-> IF r = 1 THEN {"s1"} ELSE {"s2"}]

CrossNext == Handle(CrossKeys, ConcSlots, ConcOutcomes, BOOLEAN)

CrossSpec == CrossInit /\ [][CrossNext]_vars

---------------------------------------------------------------------------
(* The handlers facing arbitrary requests: the production handler with its *)
(* rate limiter and input validation, and the slot handler's presence check *)

\* the production clock stops at MaxClock
MaxClock == 60000

\* under load: the requests the client of one session sends, and those the
\* client of another session sends meanwhile; no collaborator fails
MaxLoadRequests == 12
MaxOtherLoadRequests == 1

\* booking: the requests that ask for a booking, and the failures of the
\* collaborators meanwhile
MaxBookRequests == 2
MaxFaults == 2

\* the other requests a client sends; no collaborator fails
MaxOddRequests == 2

\* the requests the client of the slot handler sends
MaxPlainRequests == 3

\* a string of n characters
Chars(n) == Str([i \in 1..n |-> "x"])

key1 == Str(<<"s", "1">>)
key2 == Str(<<"s", "2">>)

ProdEvent(method, body, sessionId, message) ==
    [httpMethod |-> method, body |-> body, sessionId |-> sessionId, message |-> message]

\* what the clients send: "a" and "b" well-formed requests of one session each,
\* "d" requests that ask for a booking, "c" everything else
ProdRequests ==
    [a |-> {ProdEvent("POST", "object", key1, mOk)},
     b |-> {ProdEvent("POST", "object", key2, mOk)},
     d |-> {ProdEvent("POST", "object", key2, m) : m \in {mBook, mBookEmail}},
     c |-> {ProdEvent(m, "object", key1, mOk) : m \in {"OPTIONS", "GET"}}
           \cup {ProdEvent(m, b, JsUndefined, JsUndefined) :
                    m \in {"POST", "OPTIONS"}, b \in {"badjson", "null", "absent", "scalar"}}
           \cup {ProdEvent("POST", "object", sid, mOk) :
                    sid \in {JsUndefined, JsNull, Str(<< >>), JsNumber,
                             Chars(100), Chars(101)}}
           \cup {ProdEvent("POST", "object", key1, msg) :
                    msg \in {JsUndefined, JsNull, Str(<< >>), JsNumber,
                             Chars(4000), Chars(4001)}}
           \cup {ProdEvent("POST", "object", Chars(101), Chars(4001)),
                 ProdEvent("POST", "object", JsNumber, JsUndefined)}]

\* the requests the clients send and the failures the collaborators produce:
\* one session under load, booking requests, other requests, or the requests
\* of the slot handler's client
RequestBudgets ==
    {[a |-> MaxLoadRequests, b |-> MaxOtherLoadRequests, d |-> 0, c |-> 0,
      faults |-> 0, s1 |-> 0],
     [a |-> 0, b |-> 0, d |-> MaxBookRequests, c |-> 0,
      faults |-> MaxFaults, s1 |-> 0],
     [a |-> 0, b |-> 0, d |-> 0, c |-> MaxOddRequests, faults |-> 0, s1 |-> 0],
     [a |-> 0, b |-> 0, d |-> 0, c |-> 0, faults |-> 0, s1 |-> MaxPlainRequests]}

\* how the awaits of the production handler fail here
MongoErrors == {{"MongoDB"}}
OpenAIErrors == {{"rate limit"}, {"authentication"}}
CompletionErrors == {{"OpenAI API timeout"}, {"quota"}}

\* what the client of the slot handler sends
PlainRequests ==
    [kind : {"object"}, sessionId : SessionIds,
     message : {mYes, JsUndefined, Str(<< >>), Chars(4000), Chars(4001)}]

\* time passes for the production handler
Elapse ==
    /\ deployed = "prod"
    /\ now < MaxClock
    /\ now' = now + TimeStep
    /\ call.pc # "idle" => now' - call.startedAt <= FunctionTimeout
    /\ UNCHANGED <<handlerVars, nextSweep, swept, prodVars>>

RequestInit ==
    /\ deployed \in {"prod", "slot"}
    /\ sessions = [k \in SessionIds |-> NoRef]
    /\ heap = [o \in 1..(Cardinality(SessionIds) + Cardinality(Slots)) |-> FreeObj]
    /\ mongoClient = FALSE
    /\ cachedCollection = FALSE
    /\ awsCollection = FALSE
    /\ mongoPending = FALSE
    /\ pineconeClient = FALSE
    /\ pineconePending = FALSE
    /\ insertedDocs = 0
    /\ req = [r \in Slots |-> IdleReq]
    /\ resp = [r \in Slots |-> NoResp]
    /\ budget \in RequestBudgets
    /\ deployed = "slot" <=> budget.s1 > 0
    /\ now = 0
    /\ nextSweep = SweepPeriod
    /\ swept = [k \in SessionIds |-> NoSession]
    /\ openaiKey \in BOOLEAN
    /\ rateLimitCache = << >>
    /\ chats = EmptyBag
    /\ appointments = 0
    /\ admitted = << >>
    /\ call = NoCall
    /\ reply = NoResp
    /\ collected = EmptyMap
    /\ validation = NoValidation
    /\ StoreUnused

RequestNext ==
    \/ \E client \in DOMAIN ProdRequests :
        \E ev \in ProdRequests[client] : ProdInvoke(client, ev)
    \/ \E error \in {{"ok"}} \cup MongoErrors : ProdUserSaved(error)
    \/ \E error \in {{"ok"}} \cup OpenAIErrors : ProdContextReady(error)
    \/ \E error \in {{"ok"}} \cup CompletionErrors, choices, confirms \in BOOLEAN :
        ProdCompleted(error, choices, confirms)
    \/ ProdAppointmentCreated
    \/ \E error \in {{"ok"}} \cup MongoErrors : ProdReplySaved(error)
    \/ Elapse
    \/ \E r \in Slots, ev \in PlainRequests : SlotInvoke(r, ev)
    \/ \E r \in Slots, ok \in BOOLEAN : SlotConnected(r, ok)
    \/ \E r \in Slots, ok \in BOOLEAN : SlotInserted(r, ok)
    \/ \E r \in Slots, outcome \in ConcOutcomes : SlotCompleted(r, outcome)

RequestSpec == RequestInit /\ [][RequestNext]_vars

---------------------------------------------------------------------------
(* What a finished turn shows *)

\* the invocation in slot r has returned a response
Ended(r) == req[r].pc = "idle" /\ resp[r].statusCode # 0

\* its event passed the presence check of sessionId and message
ValidTurn(r) ==
    /\ req[r].event.kind = "object"
    /\ req[r].event.sessionId # ""
    /\ Truthy(req[r].event.message)

Required == IF deployed = "slot" THEN Range(requiredFields) ELSE Range(appointmentFields)

Collected(session) ==
    {f \in Required : f \in DOMAIN session.data /\ Truthy(session.data[f])}

\* the session of the turn's key as it was when the turn began, and as it is
SessionBefore(r) == req[r].before[req[r].event.sessionId]
SessionNow(r) == View(sessions, heap)[req[r].event.sessionId]

\* the turn began with every required field collected
BeganComplete(r) ==
    /\ ValidTurn(r)
    /\ SessionBefore(r) # NoSession
    /\ Collected(SessionBefore(r)) = Required

Affirmative(r) == TestCI(YesPattern, req[r].event.message.s)
Negative(r) == TestCI(NoPattern, req[r].event.message.s)

Has(body, key) == key \in DOMAIN body

Completed(r) == Has(resp[r].body, "completed") /\ resp[r].body.completed = TRUE

Booked == Str(<<"b", "o", "o", "k", "e", "d">>)

---------------------------------------------------------------------------
(* The claims *)

\* C1: a turn that begins with every required field collected and whose
\* message matches /yes/i (and that does not end in an error) persists exactly
\* one record holding every collected field plus status = booked, answers
\* completed = true with that record, and leaves no session for the key.
C1_AffirmativeTurnBooks ==
    \A r \in DOMAIN req :
        (Ended(r) /\ BeganComplete(r) /\ Affirmative(r) /\ resp[r].statusCode = 200)
        => /\ insertedDocs = req[r].insertedBefore + 1
           /\ Completed(r)
           /\ Has(resp[r].body, "appointment")
           /\ LET doc == resp[r].body.appointment
              IN  /\ \A f \in Required \ {"status", "action"} :
                        f \in DOMAIN doc /\ doc[f] = SessionBefore(r).data[f]
                  /\ "status" \in DOMAIN doc /\ doc["status"] = Booked
           /\ sessions[req[r].event.sessionId] = NoRef

\* C2: a record is persisted only by a turn that began with every required
\* field collected and whose message is an affirmative confirmation; never by
\* the turn that supplies the last missing field.
C2_BookingOnlyAfterConfirmation ==
    \A r \in DOMAIN req :
        (req[r].pc = "insert" \/ insertedDocs # req[r].insertedBefore)
        => BeganComplete(r) /\ Affirmative(r)

\* C3: while awaiting confirmation, a message that is neither affirmative nor
\* negative gets a successful reply, and the session map and the store are as
\* they were.
C3_OtherMessageReasks ==
    \A r \in DOMAIN req :
        (deployed = "slot" /\ Ended(r) /\ BeganComplete(r)
            /\ ~Affirmative(r) /\ ~Negative(r))
        => /\ resp[r].statusCode = 200
           /\ View(sessions, heap) = req[r].before
           /\ insertedDocs = req[r].insertedBefore

\* C4: while awaiting confirmation, a message matching /no/i and not /yes/i
\* destroys the session, is answered with the cancellation reply and
\* completed = false, and persists nothing.
C4_NegativeTurnCancels ==
    \A r \in DOMAIN req :
        (deployed = "slot" /\ Ended(r) /\ BeganComplete(r)
            /\ Negative(r) /\ ~Affirmative(r))
        => /\ sessions[req[r].event.sessionId] = NoRef
           /\ resp[r].statusCode = 200
           /\ Has(resp[r].body, "completed") /\ resp[r].body.completed = FALSE
           /\ resp[r].body.response
                = "Appointment cancelled. If you want to start over, just say hi!"
           /\ insertedDocs = req[r].insertedBefore

C4_Witness ==
    \E r \in DOMAIN req :
        /\ deployed = "slot" /\ Ended(r) /\ BeganComplete(r)
        /\ Negative(r) /\ ~Affirmative(r)
        /\ sessions[req[r].event.sessionId] = NoRef

AfterFailedBooking(r) ==
    IF deployed = "slot"
    THEN SessionBefore(r)
    ELSE [SessionBefore(r) EXCEPT
            !.data = Spread(@, [k \in {"time"} |-> req[r].event.message])]

C6_ErrorLeavesStateUntouched ==
    \A r \in DOMAIN req :
        (Ended(r) /\ resp[r].statusCode >= 400)
        => /\ View(sessions, heap) = req[r].before
           /\ insertedDocs = req[r].insertedBefore

\* C7: whatever text the completion call returns during slot extraction, the
\* turn ends in a successful reply.
C7_AnyCompletionTextIsAbsorbed ==
    \A r \in DOMAIN req :
        (deployed = "slot" /\ Ended(r) /\ req[r].outcome.kind \in {"text", "nochoices"})
        => resp[r].statusCode = 200

\* C8: when the completion call itself fails or times out, the turn replies
\* successfully with the generic clarification prompt.
C8_CompletionFailureFallsBack ==
    \A r \in DOMAIN req :
        (deployed = "slot" /\ Ended(r) /\ req[r].outcome.kind = "rejected")
        => /\ resp[r].statusCode = 200
           /\ Has(resp[r].body, "response")
           /\ resp[r].body.response = Prop(Fallback, "nextPrompt")

\* the partial mapping the extractor returned: the properties of its `data`
ExtractedMapping(r) == SpreadProps(Prop(Extracted(req[r].outcome), "data"))

\* a collecting turn of the slot handler has merged and replied
Merged(r) ==
    /\ deployed = "slot" /\ Ended(r) /\ resp[r].statusCode = 200
    /\ req[r].outcome.kind # "none"

\* C9: a collecting turn merges the extracted mapping last-write-wins: every
\* field in the extracted mapping takes the extracted value, every other field
\* keeps its previous value, and no other field appears.
C9_MergeLastWriteWins ==
    \A r \in DOMAIN req :
        Merged(r)
        => LET ext == ExtractedMapping(r)
               old == SessionBefore(r).data
               new == SessionNow(r).data
           IN  /\ DOMAIN new = DOMAIN old \cup DOMAIN ext
               /\ \A f \in DOMAIN new :
                    new[f] = IF f \in DOMAIN ext THEN ext[f] ELSE old[f]

C9_Witness ==
    \E r \in DOMAIN req :
        /\ Merged(r)
        /\ \E f \in DOMAIN ExtractedMapping(r) \cap DOMAIN SessionBefore(r).data :
                /\ ExtractedMapping(r)[f] # SessionBefore(r).data[f]
                /\ SessionNow(r).data[f] = ExtractedMapping(r)[f]
        /\ \E g \in DOMAIN SessionBefore(r).data : g \notin DOMAIN ExtractedMapping(r)

\* C10: every collecting reply reports step = the number of required fields
\* collected after the turn and totalSteps = the number of required fields,
\* with 0 <= step <= totalSteps.
C10_StepCountsCollectedFields ==
    \A r \in DOMAIN req :
        (Ended(r) /\ Has(resp[r].body, "step"))
        => /\ resp[r].body.totalSteps = Cardinality(Required)
           /\ resp[r].body.step = Cardinality(Collected(SessionNow(r)))
           /\ 0 <= resp[r].body.step
           /\ resp[r].body.step <= resp[r].body.totalSteps

\* C11: when a collecting session gets the same message twice in a row (and,
\* in the slot handler, the extractor returns the same text for it), the
\* collected mapping after the second turn equals the one after the first.
C11_ResubmitIsIdempotent ==
    \A r \in DOMAIN req :
        (Collecting(r) /\ req[r].repeat
            /\ (deployed = "slot" => req[r].outcome = req[r].prevOutcome))
        => SessionNow(r).data = SessionBefore(r).data

\* the same, for the slot handler alone
C11_SlotResubmitIsIdempotent ==
    deployed = "slot" => C11_ResubmitIsIdempotent

\* a step of the idle sweep
SweepStep == nextSweep' # nextSweep

\* the turn in slot r has just looked its session up (created it if missing)
LookedUp(r) == req[r].pc \notin {"complete", "insert"} /\ req'[r].pc \in {"complete", "insert"}

\* C12: a sweep deletes a session exactly when its last activity is more than
\* 15 minutes old; a session in the map has been idle for less than 16 minutes
\* (or for 16 minutes, with the sweep due now); and the turn that finds no
\* session for its key starts a new one with an empty collected mapping.
C12_SweepDeletesExactlyIdleSessions ==
    [][/\ SweepStep =>
            \A k \in DOMAIN sessions :
                sessions'[k] = NoRef
                <=> \/ sessions[k] = NoRef
                    \/ now - heap[sessions[k]].lastActive > 15 * 60 * 1000
       /\ SweepStep =>
            \A k \in DOMAIN sessions : sessions'[k] \in {NoRef, sessions[k]}
       /\ \A k \in DOMAIN sessions :
            sessions'[k] # NoRef
            => LET idle == now' - heap'[sessions'[k]].lastActive
               IN  \/ idle < 16 * 60 * 1000
                   \/ idle = 16 * 60 * 1000 /\ now' = nextSweep'
       /\ \A r \in DOMAIN req :
            (LookedUp(r) /\ sessions[req'[r].event.sessionId] = NoRef)
            => /\ sessions'[req'[r].event.sessionId] = req'[r].session
               /\ heap'[req'[r].session].data = EmptyMap
      ]_vars

\* a session that had collected fields was swept, and the next turn for its key
\* works on a new, empty session
C12_Witness ==
    \E r \in DOMAIN req :
        /\ req[r].pc = "complete"
        /\ swept[req[r].event.sessionId] # NoSession
        /\ swept[req[r].event.sessionId].data # EmptyMap
        /\ req[r].before[req[r].event.sessionId] = NoSession
        /\ heap[req[r].session].data = EmptyMap
        /\ sessions[req[r].event.sessionId] = req[r].session

\* C13: the sweep never deletes the session of a turn in flight (one that has
\* looked its session up and awaits the completion or the insert), and the
\* fields such a turn merges are in the session the map holds for its key.
C13_SweepSparesSessionInFlight ==
    [][/\ SweepStep =>
            \A r \in InFlight :
                req[r].session # NoRef
                => sessions'[req[r].event.sessionId] = req[r].session
       /\ \A r \in DOMAIN req :
            (req'[r].pc # "idle" /\ req'[r].session # NoRef)
            => sessions'[req'[r].event.sessionId] = req'[r].session
       /\ \A r \in DOMAIN req :
            (req[r].pc = "complete" /\ req'[r].pc = "idle" /\ resp'[r].statusCode = 200)
            => LET ext == SpreadProps(Prop(Extracted(req'[r].outcome), "data"))
                   sid == req[r].event.sessionId
               IN  /\ sessions'[sid] # NoRef
                   /\ \A f \in DOMAIN ext :
                        /\ f \in DOMAIN heap'[sessions'[sid]].data
                        /\ heap'[sessions'[sid]].data[f] = ext[f]
      ]_vars

\* the sweep has just run while a turn on an existing session awaits
C13_Witness ==
    \E r \in DOMAIN req :
        /\ req[r].pc \in {"complete", "insert"}
        /\ req[r].startedAt < now
        /\ nextSweep = now + SweepPeriod
        /\ req[r].before[req[r].event.sessionId] # NoSession
        /\ sessions[req[r].event.sessionId] = req[r].session

\* two turns for one key that began before either had persisted its record,
\* and that have both persisted one
DoubleBooking ==
    \E r1, r2 \in DOMAIN req :
        /\ r1 # r2
        /\ req[r1].event.sessionId = req[r2].event.sessionId
        /\ req[r1].insert = "stored" /\ req[r2].insert = "stored"
        /\ req[r1].insertedBefore = req[r2].insertedBefore

\* the turn in slot r writes its merge (slot) or its cursor (cursor) and replies
WritesSession(r) ==
    req[r].pc = "complete" /\ req'[r].pc = "idle" /\ resp'[r].statusCode = 200

\* C14: concurrent turns for one key never persist two records for one
\* completed session, and a turn never writes into a session object that is
\* no longer the session of its key.
C14_ConcurrentTurnsAreAtomic ==
    [][/\ ~DoubleBooking'
       /\ \A r \in DOMAIN req :
            WritesSession(r) => sessions[req[r].event.sessionId] = req[r].session
      ]_vars

\* C14, first half alone: no double booking
C14_NoDoubleBooking == ~DoubleBooking

\* C14, second half alone: no write into a destroyed session
C14_NoWriteToDestroyedSession ==
    [][\A r \in DOMAIN req :
            WritesSession(r) => sessions[req[r].event.sessionId] = req[r].session
      ]_vars

\* C15: a step of a turn for one session key leaves the slot-filling state
\* (existence, cursor, collected fields) of every other key as it was.
C15_TurnLeavesOtherSessionsAlone ==
    [][\A r \in DOMAIN req :
            req'[r] # req[r]
            => \A k \in DOMAIN sessions :
                    k # req'[r].event.sessionId
                    => View(sessions', heap')[k] = View(sessions, heap)[k]
      ]_vars

\* turns for two keys are in flight together, each on a session of its own that
\* has collected fields
C15_Witness ==
    \E r1, r2 \in DOMAIN req :
        /\ req[r1].pc # "idle" /\ req[r2].pc # "idle"
        /\ req[r1].event.sessionId # req[r2].event.sessionId
        /\ req[r1].session # NoRef /\ req[r2].session # NoRef
        /\ req[r1].session # req[r2].session
        /\ heap[req[r1].session].data # EmptyMap
        /\ heap[req[r2].session].data # EmptyMap

\* the cursor of a session: session.step, which the cursor handler advances;
\* the slot handler keeps none and derives its step from the collected fields
Cursor(session) ==
    IF deployed = "slot" THEN SlotStep(session.data) ELSE session.step

\* the turn in slot r ended with a booking or a cancellation
Terminal(r) ==
    /\ Ended(r) /\ resp[r].statusCode = 200
    /\ Has(resp[r].body, "completed")

\* every session in the map has a cursor from 0 to the number of required fields
CursorInRange ==
    \A k \in DOMAIN sessions :
        sessions[k] # NoRef
        => /\ 0 <= Cursor(heap[sessions[k]])
           /\ Cursor(heap[sessions[k]]) <= Cardinality(Required)

\* the session of a booked or cancelled turn is gone
TerminalSessionsAbsent ==
    \A r \in DOMAIN req : Terminal(r) => sessions[req[r].event.sessionId] = NoRef

\* C16: every session in the map is collecting or awaiting confirmation: its
\* cursor is at most the number of required fields and equals the number of
\* required fields present in its collected mapping; the session of a booked
\* or cancelled turn is absent from the map.
C16_SessionStateInvariant ==
    /\ CursorInRange
    /\ \A k \in DOMAIN sessions :
        sessions[k] # NoRef
        => Cursor(heap[sessions[k]]) = Cardinality(Collected(heap[sessions[k]]))
    /\ TerminalSessionsAbsent

\* the parts of C16 that do not compare the cursor with the collected fields
C16_CursorInRangeAndTerminalAbsent == CursorInRange /\ TerminalSessionsAbsent

---------------------------------------------------------------------------
(* Input validation *)

\* a non-empty string of at most max characters
InBounds(v, max) == v.t = "string" /\ Len(v.s) >= 1 /\ Len(v.s) <= max

\* the fields an error text names
FieldsNamed(error) ==
    CASE error \in {"sessionId must be a non-empty string",
                    "sessionId too long (max 100 characters)"} -> {"sessionId"}
      [] error \in {"message must be a non-empty string",
                    "message too long (max 4000 characters)"} -> {"message"}
      [] error = "sessionId and message are required." -> {"sessionId", "message"}
      [] OTHER -> {}

\* a 400 response whose error names fields out of `offending` only
Rejects(out, offending) ==
    /\ out.statusCode = 400
    /\ "error" \in DOMAIN out.body
    /\ FieldsNamed(out.body.error) # {}
    /\ FieldsNamed(out.body.error) \subseteq offending

\* the sessionId and the message of the POST request the production handler
\* was invoked with last (undefined unless the body is a JSON object)
Sent(field) ==
    IF call.event.body = "object" THEN call.event[field] ELSE JsUndefined

\* the production handler: a POST request out of bounds is rejected at once,
\* one within bounds passes validateInput
ProdInputChecked ==
    call.event.httpMethod = "POST"
    => LET offending ==
               {f \in {"sessionId"} : ~InBounds(Sent(f), 100)}
               \cup {f \in {"message"} : ~InBounds(Sent(f), 4000)}
       IN  IF offending = {} THEN call.validated
           ELSE /\ call.pc = "idle"
                /\ ~call.validated
                /\ Rejects(reply, offending)

\* the slot handler: a request whose message is out of bounds is rejected
\* before it creates or changes a session or stores anything
SlotInputChecked ==
    \A r \in DOMAIN req :
        (req[r].event.kind = "object" /\ ~InBounds(req[r].event.message, 4000))
        => /\ req[r].pc \in {"idle", "connect"}
           /\ View(sessions, heap) = req[r].before
           /\ insertedDocs = req[r].insertedBefore
           /\ Ended(r) => Rejects(resp[r], {"message"})

\* C17: a request whose sessionId or message is missing, empty, not a string or
\* too long (100 and 4000 characters) is answered 400 with an error naming the
\* offending field, and creates, changes and stores nothing; a request within
\* the bounds passes validation.
C17_InvalidInputIsRejected == ProdInputChecked /\ SlotInputChecked

---------------------------------------------------------------------------
(* The rate limiter *)

\* the number of the requests of a session admitted in the window of
\* RATE_LIMIT_WINDOW milliseconds that ends at time t
AdmittedInWindow(sessionId, t) ==
    Cardinality({i \in DOMAIN Requests(admitted, sessionId) :
                    /\ admitted[sessionId][i] > t - RATE_LIMIT_WINDOW
                    /\ admitted[sessionId][i] <= t})

\* no window holds more than RATE_LIMIT_MAX_REQUESTS admitted requests of one
\* session (a window with admitted requests holds no more than the window that
\* ends at the last of them)
WindowBound ==
    \A k \in DOMAIN admitted :
        \A i \in DOMAIN admitted[k] :
            AdmittedInWindow(k, admitted[k][i]) <= RATE_LIMIT_MAX_REQUESTS

\* a step in which the production handler is invoked with a request that
\* passes validateInput
LimiterStep == deployed = "prod" /\ call.pc = "idle" /\ budget' # budget /\ call'.validated

\* the limiter's step: the request is limited exactly when its own session has
\* RATE_LIMIT_MAX_REQUESTS admitted requests in the window that ends now; a
\* limited request is answered 429 at once and changes nothing, an admitted one
\* is counted for its own session only
LimiterStepOK ==
    LET k == call'.event.sessionId
    IN  /\ call'.limited <=> AdmittedInWindow(k, now) >= RATE_LIMIT_MAX_REQUESTS
        /\ call'.limited
           => /\ reply' = TooManyRequests
              /\ call'.pc = "idle"
              /\ chats' = chats
              /\ appointments' = appointments
              /\ rateLimitCache' = rateLimitCache
              /\ admitted' = admitted
              /\ sessions' = sessions /\ heap' = heap
        /\ ~call'.limited
           => Requests(admitted', k) = Append(Requests(admitted, k), now)
        /\ \A other \in (DOMAIN admitted') \ {k} :
            /\ Requests(admitted', other) = Requests(admitted, other)
            /\ Requests(rateLimitCache', other) = Requests(rateLimitCache, other)

\* C18: of each session at most 10 requests are admitted in any window of 60
\* seconds; a request beyond them is answered 429 and persists no message,
\* makes no completion call and changes no session; the requests of one session
\* do not count against another.
C18_AtMostTenRequestsPerWindow ==
    /\ [](WindowBound /\ (reply = TooManyRequests => call.limited))
    /\ [][LimiterStep => LimiterStepOK]_vars

\* C18: the eleventh request of a session within a minute has been answered 429
\* after ten were admitted and their messages stored, and a request of the
\* other session has been admitted
C18_Witness ==
    /\ call.limited
    /\ reply = TooManyRequests
    /\ call.event.sessionId = key1
    /\ AdmittedInWindow(key1, now) = RATE_LIMIT_MAX_REQUESTS
    /\ BagCardinality(chats) > 0
    /\ AdmittedInWindow(key2, now) = 1

---------------------------------------------------------------------------
(* validateAppointmentData on its own: called once with each argument      *)

\* the values of the fields of the argument; undefined stands for a field
\* that is absent
Names ==
    {JsUndefined,
     Str(<<>>),
     Str(<<"A">>),
     Str(<<" ", "A", " ">>),
     Str(<<"A", "l">>),
     Str(<<" ", " ", " ">>)}
Emails ==
    {JsUndefined,
     Str(<<"b", "a", "d">>),
     Str(<<"a", "@", "b", ".", "c">>),
     Str(<<"a", "@", "b">>),
     Str(<<"a", " ", "@", "b", ".", "c">>),
     Str(<<"@", "b", ".", "c">>),
     Str(<<"a", "@", "b", ".">>),
     Str(<<"a", "@", "@", "b", ".", "c">>),
     Str(<<"a", "@", ".", "c">>)}
Phones ==
    {JsUndefined,
     Str(<<"1", "2", "3">>),
     Str(<<"5", "5", "5", "5", "5", "5", "5", "5", "5", "5">>),
     Str(<<"5", "5", "5", "-", "5", "5", "5", "-", "5", "5", "5", "5">>),
     Str(<<"1", "2", "3", "4", "5", " ", "6", "7", "8", "9">>),
     Str(<<" ", "1", "2", "3", "4", "5", "6", "7", "8", "9", " ">>),
     Str(<<"c", "a", "l", "l", " ", "m", "e", " ", "n", "o", "w">>)}
Services ==
    {JsUndefined,
     Str(<<>>),
     Str(<<" ">>),
     Str(<<"c", "h", "e", "c", "k", "u", "p">>)}
Dates == {JsUndefined, Str(<<"m", "a", "y", " ", "5">>)}
Times == {JsUndefined, Str(<<"9", ":", "3", "0", "a", "m">>)}

\* an object with the properties that are not undefined
Object(props) == [f \in {g \in DOMAIN props : props[g].t # "undefined"} |-> props[f]]

AppointmentInputs ==
    {Object([name |-> n, email |-> e, phone |-> p, service |-> s,
             preferredDate |-> d, preferredTime |-> t]) :
        n \in Names, e \in Emails, p \in Phones, s \in Services,
        d \in Dates, t \in Times}

\* validateAppointmentData(collected) returns
Validate ==
    /\ deployed = "appointment"
    /\ validation = NoValidation
    /\ validation' = ValidateAppointmentData(collected)
    /\ UNCHANGED <<handlerVars, clockVars, openaiKey, rateLimitCache, chats,
                   appointments, admitted, call, reply, collected, storeVars>>

ValidateInit ==
    /\ deployed = "appointment"
    /\ sessions = [k \in SessionIds |-> NoRef]
    /\ heap = [o \in 1..(Cardinality(SessionIds) + Cardinality(Slots)) |-> FreeObj]
    /\ mongoClient = FALSE
    /\ cachedCollection = FALSE
    /\ awsCollection = FALSE
    /\ mongoPending = FALSE
    /\ pineconeClient = FALSE
    /\ pineconePending = FALSE
    /\ insertedDocs = 0
    /\ req = [r \in Slots |-> IdleReq]
    /\ resp = [r \in Slots |-> NoResp]
    /\ budget = [k \in SessionIds \cup {""} |-> -1]
    /\ now = 0
    /\ nextSweep = SweepPeriod
    /\ swept = [k \in SessionIds |-> NoSession]
    /\ openaiKey = FALSE
    /\ rateLimitCache = << >>
    /\ chats = EmptyBag
    /\ appointments = 0
    /\ admitted = << >>
    /\ call = NoCall
    /\ reply = NoResp
    /\ collected \in AppointmentInputs
    /\ validation = NoValidation
    /\ StoreUnused

ValidateNext == Validate

ValidateSpec == ValidateInit /\ [][ValidateNext]_vars

\* validateAppointmentData has returned
Validated == validation # NoValidation

\* the rules of validateAppointmentData with their messages, and whether the
\* argument violates them
Rules ==
    {[message |-> "Name must be at least 2 characters long",
      rejected |-> NameRejected(Field(collected, "name"))],
     [message |-> "Valid email is required",
      rejected |-> EmailRejected(Field(collected, "email"))],
     [message |-> "Valid phone number is required",
      rejected |-> PhoneRejected(Field(collected, "phone"))],
     [message |-> "Service type is required",
      rejected |-> ServiceRejected(Field(collected, "service"))],
     [message |-> "Preferred date is required",
      rejected |-> DateRejected(Field(collected, "preferredDate"))],
     [message |-> "Preferred time is required",
      rejected |-> TimeRejected(Field(collected, "preferredTime"))]}

\* the argument { name: 'A', email: 'bad', phone: '123' }
ThreeBadFields ==
    [name |-> Str(<<"A">>), email |-> Str(<<"b", "a", "d">>), phone |-> Str(<<"1", "2", "3">>)]

\* C19: validateAppointmentData does not stop at the first violated rule: the
\* errors it returns hold one message for each rule the argument violates and
\* nothing else (at least three for name 'A', email 'bad', phone '123'), and
\* valid is true exactly when there is no error.
C19_ErrorsAccumulate ==
    Validated
    => /\ Range(validation.errors) = {rule.message : rule \in {x \in Rules : x.rejected}}
       /\ Len(validation.errors) = Cardinality({x \in Rules : x.rejected})
       /\ validation.valid <=> validation.errors = << >>
       /\ collected = ThreeBadFields => Len(validation.errors) >= 3

\* C19: the argument with name 'A', email 'bad' and phone '123' has been
\* validated, and the three rules are among the errors
C19_Witness ==
    /\ Validated
    /\ collected = ThreeBadFields
    /\ ~validation.valid
    /\ {"Name must be at least 2 characters long", "Valid email is required",
        "Valid phone number is required"} \subseteq Range(validation.errors)

\* the number of digits in a string
Digits(s) ==
    Cardinality({i \in DOMAIN s :
                    s[i] \in {"0", "1", "2", "3", "4", "5", "6", "7", "8", "9"}})

\* a string of the shape local@domain.tld: no white space, one "@", and
\* non-empty parts before the "@", between it and a later "." and after that "."
LocalAtDomainTld(s) ==
    /\ \A i \in DOMAIN s : s[i] \notin WhiteSpace
    /\ Cardinality({i \in DOMAIN s : s[i] = "@"}) = 1
    /\ \E i, j \in DOMAIN s :
        s[i] = "@" /\ s[j] = "." /\ 1 < i /\ i + 1 < j /\ j < Len(s)

\* the error message is among the errors returned
Reported(message) == message \in Range(validation.errors)

\* the field is a non-empty string
Present(field) == Truthy(Field(collected, field))

\* C20: each rule is reported exactly when it fails as specified: name shorter
\* than 2 characters trimmed, email not of the shape local@domain.tld, phone
\* with fewer than 10 digits, service empty, date absent, time absent.
C20_RulesAsSpecified ==
    Validated
    => /\ Reported("Name must be at least 2 characters long")
          <=> (~Present("name") \/ Len(Trim(collected.name.s)) < 2)
       /\ Reported("Valid email is required")
          <=> (~Present("email") \/ ~LocalAtDomainTld(collected.email.s))
       /\ Reported("Valid phone number is required")
          <=> (~Present("phone") \/ Digits(collected.phone.s) < 10)
       /\ Reported("Service type is required")
          <=> (~Present("service") \/ Trim(collected.service.s) = << >>)
       /\ Reported("Preferred date is required") <=> ~Present("preferredDate")
       /\ Reported("Preferred time is required") <=> ~Present("preferredTime")

\* C20 without the phone rule
C20_OtherRulesAsSpecified ==
    Validated
    => /\ Reported("Name must be at least 2 characters long")
          <=> (~Present("name") \/ Len(Trim(collected.name.s)) < 2)
       /\ Reported("Valid email is required")
          <=> (~Present("email") \/ ~LocalAtDomainTld(collected.email.s))
       /\ Reported("Service type is required")
          <=> (~Present("service") \/ Trim(collected.service.s) = << >>)
       /\ Reported("Preferred date is required") <=> ~Present("preferredDate")
       /\ Reported("Preferred time is required") <=> ~Present("preferredTime")

---------------------------------------------------------------------------
(* Requests whose body is not JSON *)

\* the production handler was invoked last with a POST request whose body
\* does not parse
BadJsonSent == call.event.httpMethod = "POST" /\ call.event.body = "badjson"

\* the response of lines 360-366
InvalidJson == Response(400, [error |-> "Invalid JSON in request body"])

\* C21: a POST request whose body is not valid JSON is answered 400 'Invalid
\* JSON in request body'; the handler does not throw for it.
C21_InvalidJsonIsAnswered400 ==
    BadJsonSent => (call.pc = "idle" /\ reply = InvalidJson)

\* C21, the part that holds: the request whose body is not valid JSON stores
\* no message and takes nothing from the rate limiter
C21_InvalidJsonChangesNothing ==
    [][(deployed = "prod" /\ call.pc = "idle" /\ budget' # budget
        /\ call'.event.body = "badjson")
       => (chats' = chats /\ rateLimitCache' = rateLimitCache
           /\ admitted' = admitted)]_vars

---------------------------------------------------------------------------
(* The session cache: getSessionHistory and saveMessage (chat.js 269-320),  *)
(* called one after the other for one session                              *)

\* .limit(50) of getSessionHistory and the 50 of saveMessage's splice
FindLimit == 50
CacheLimit == 50

\* the messages saved for the session
MaxSaved == 52

\* the first n elements of a list, and its last n
FirstN(list, n) == SubSeq(list, 1, Min(n, Len(list)))
LastN(list, n) == SubSeq(list, Len(list) - Min(n, Len(list)) + 1, Len(list))

\* history.push(message), then history.splice(0, history.length - 50) if the
\* history is longer than 50
Pushed(history, message) == LastN(Append(history, message), CacheLimit)

\* getSessionHistory(sessionId): the cached history, or the result of
\* find({ sessionId }).sort({ createdAt: 1 }).limit(50), which it caches
GetSessionHistory(sessionId, ok) ==
    /\ deployed = "cache"
    /\ UNCHANGED <<handlerVars, clockVars, openaiKey, rateLimitCache, chats,
                   appointments, admitted, call, reply, validateVars, saved, store>>
    /\ IF sessionId \in DOMAIN sessionCache THEN
            /\ returned' = "cached"
            /\ UNCHANGED sessionCache
       ELSE IF ok THEN
            /\ sessionCache' = Put(sessionCache, sessionId, FirstN(saved, FindLimit))
            /\ returned' = "found"
       ELSE
            /\ returned' = "error"
            /\ UNCHANGED sessionCache

\* saveMessage(sessionId, role, content): the message, numbered by its creation
\* time, is inserted and then pushed to the cached history, if there is one
SaveMessage(sessionId, ok) ==
    /\ deployed = "cache"
    /\ Len(saved) < MaxSaved
    /\ UNCHANGED <<handlerVars, clockVars, openaiKey, rateLimitCache, chats,
                   appointments, admitted, call, reply, validateVars, store>>
    /\ LET message == Len(saved) + 1
       IN  IF ok THEN
                /\ saved' = Append(saved, message)
                /\ sessionCache' =
                       IF sessionId \in DOMAIN sessionCache
                       THEN Put(sessionCache, sessionId,
                                Pushed(sessionCache[sessionId], message))
                       ELSE sessionCache
                /\ returned' = "saved"
           ELSE
                /\ returned' = "error"
                /\ UNCHANGED <<saved, sessionCache>>

CacheInit ==
    /\ deployed = "cache"
    /\ sessions = [k \in SessionIds |-> NoRef]
    /\ heap = [o \in 1..(Cardinality(SessionIds) + Cardinality(Slots)) |-> FreeObj]
    /\ mongoClient = FALSE
    /\ cachedCollection = FALSE
    /\ awsCollection = FALSE
    /\ mongoPending = FALSE
    /\ pineconeClient = FALSE
    /\ pineconePending = FALSE
    /\ insertedDocs = 0
    /\ req = [r \in Slots |-> IdleReq]
    /\ resp = [r \in Slots |-> NoResp]
    /\ budget = [k \in SessionIds \cup {""} |-> -1]
    /\ now = 0
    /\ nextSweep = SweepPeriod
    /\ swept = [k \in SessionIds |-> NoSession]
    /\ ProdUnused

CacheNext ==
    \/ \E ok \in BOOLEAN : GetSessionHistory(key1, ok)
    \/ \E ok \in BOOLEAN : SaveMessage(key1, ok)

CacheSpec == CacheInit /\ [][CacheNext]_vars

\* C22: the cached history of a session is the last 50 of its saved messages,
\* in creation order (so at most 50 messages, each of them inserted).
C22_CacheHoldsTheLastFifty ==
    \A sessionId \in DOMAIN sessionCache :
        sessionCache[sessionId] = LastN(saved, CacheLimit)

\* C22, the parts that hold: at most 50 messages, all of them inserted, in
\* creation order
C22_CacheIsBoundedAndSaved ==
    \A sessionId \in DOMAIN sessionCache :
        LET history == sessionCache[sessionId]
        IN  /\ Len(history) <= CacheLimit
            /\ \A i \in DOMAIN history : history[i] \in Range(saved)
            /\ \A i, j \in DOMAIN history : i < j => history[i] < history[j]

---------------------------------------------------------------------------
(* The enrichment context of a production turn (chat.js 412-467) *)

\* C23: whatever the embedding and vector-search calls of a turn do, the turn
\* goes on to its completion call; their failure is never answered with an
\* error response.
C23_EnrichmentFailureIsAbsorbed ==
    [][(call.pc = "embed" /\ call'.pc # "embed")
       => (call'.pc = "complete" /\ reply' = NoResp)]_vars

---------------------------------------------------------------------------
(* The booking decision of a production turn (chat.js 518-541)             *)

\* the user asks to confirm or book: the message includes one of the words of
\* lines 520-522
AsksToBook(message) == WantsToConfirm(FALSE, message)

\* the data extracted from the message of the current invocation, and the
\* reasons validateAppointmentData has to reject it
ExtractedNow == ExtractAppointmentInfo(call.event.message)
ReasonsNow == AppointmentErrors(ExtractedNow)

\* the answer of a turn that asked to book with data that fails validation
RefusedToBook ==
    (/\ call.pc = "idle"
     /\ call.validated
     /\ reply.statusCode = 200
     /\ AsksToBook(call.event.message)
     /\ DOMAIN ExtractedNow # {}
     /\ ReasonsNow # << >>)
    => /\ reply.body.appointmentBooked = FALSE
       /\ Len(reply.body.reply) = 1 + Len(ReasonsNow)
       /\ \A i \in DOMAIN ReasonsNow : reply.body.reply[1 + i] = ReasonsNow[i]

\* an appointment is created, and a confirmation returned, only for valid data
BookedOnlyIfValid ==
    /\ appointments' # appointments
       => /\ appointments' = appointments + 1
          /\ ReasonsNow = << >>
          /\ call'.pc = "saveReply"
          /\ call'.finalReply = <<"confirmationMessage">>
    /\ (call'.pc = "idle" /\ reply'.statusCode = 200 /\ call.pc = "saveReply")
       => /\ reply'.body.appointmentBooked = (ReasonsNow = << >> /\ DOMAIN ExtractedNow # {})
          /\ (reply'.body.reply = <<"confirmationMessage">>)
                 = reply'.body.appointmentBooked
    /\ (call.pc = "complete" /\ call'.pc # "complete" /\ ReasonsNow # << >>)
       => /\ appointments' = appointments
          /\ call'.pc \in {"saveReply", "idle"}

---------------------------------------------------------------------------
(* The status codes of the production handler (chat.js 340-353, 491-509,   *)
(* 569-610; README.md 287-296)                                             *)

\* the status codes the README documents, and 200
DocumentedStatus == {200, 400, 405, 408, 429, 500, 503}

\* an invocation of the production handler is over
Answered == deployed = "prod" /\ call.pc = "idle" /\ call.event.httpMethod # ""

\* C25: every invocation ends with a response object that carries a documented
\* status code: 200 with an empty body for OPTIONS, 405 for another method than
\* POST, and 400, 408, 429, 503 or 500 for the failures of a POST.
C25_EveryFailureHasItsStatus ==
    Answered =>
        /\ reply.statusCode \in DocumentedStatus
        /\ call.event.httpMethod = "OPTIONS" => reply = Response(200, EmptyMap)
        /\ call.event.httpMethod \notin {"OPTIONS", "POST"} => reply.statusCode = 405

\* C25, without the malformed bodies of C21: an authentication failure of a
\* collaborator is answered 401, which is no documented status
C25_ParsedRequestHasItsStatus ==
    (Answered /\ call.event.body \notin {"badjson", "null"})
        => reply.statusCode \in DocumentedStatus

\* C25, the part that holds: requests whose body line 328 can read are answered
\* with a response object; OPTIONS gets 200 with an empty body and any other
\* method than POST 405
C25_MethodsAreAnswered ==
    (Answered /\ call.event.body \notin {"badjson", "null"})
        => /\ reply.statusCode \in DocumentedStatus \cup {401}
           /\ call.event.httpMethod = "OPTIONS" => reply = Response(200, EmptyMap)
           /\ call.event.httpMethod \notin {"OPTIONS", "POST"} => reply.statusCode = 405

---------------------------------------------------------------------------
(* The progress of a slot-filling session (chat.js 143-145, 159-169)       *)

\* the required fields a session's data satisfies
CollectedFields(data) == Range(requiredFields) \ MissingFields(data)

\* C26: as long as a session of the slot handler lives, every required field
\* it has collected stays collected, so the step it reports never decreases,
\* whatever mapping the extractor returns.
C26_ProgressNeverDecreases ==
    [][\A k \in SessionIds :
        (deployed = "slot" /\ sessions[k] # NoRef /\ sessions'[k] = sessions[k])
        => /\ CollectedFields(heap[sessions[k]].data)
                \subseteq CollectedFields(heap'[sessions[k]].data)
           /\ SlotStep(heap[sessions[k]].data) <= SlotStep(heap'[sessions[k]].data)]_vars

---------------------------------------------------------------------------
(* initMongo (chat.js 52-63, part_001 166-173) over the requests of one    *)
(* execution environment                                                   *)

\* the errors of a handler that went on without a collection
NoCollection ==
    {SlotError("Cannot destructure property"),
     CursorError("Cannot read properties of undefined")}

\* C27: no request goes on with an undefined collection, and a client that is
\* assigned without a usable collection is one whose connection attempt is
\* still pending, so that a failed attempt is made again by the next request.
C27_InitMongoIsUsable ==
    /\ \A r \in DOMAIN resp : resp[r] \notin NoCollection
    /\ deployed = "slot"
       => ((mongoClient /\ ~cachedCollection)
           => \E r \in DOMAIN req : req[r].pc = "connect")
    /\ deployed = "cursor" => ((mongoClient /\ ~awsCollection) => mongoPending)

---------------------------------------------------------------------------
(* The cursor of the 7-field handler (part_001 175-185, 240-298)           *)

\* the cursor a turn began with: 0 for a session the turn created
CursorBefore(r) ==
    IF SessionBefore(r) = NoSession THEN 0 ELSE SessionBefore(r).step

\* the data a turn at cursor k leaves: the message as the k-th field, nothing
\* for the first message
WithField(data, k, message) ==
    IF k = 0 THEN data
    ELSE [f \in DOMAIN data \cup {appointmentFields[k]} |->
            IF f = appointmentFields[k] THEN message ELSE data[f]]

\* a turn of the cursor handler was answered 200
CursorAnswered(r) == deployed = "cursor" /\ Ended(r) /\ resp[r].statusCode = 200

\* C28: a successful turn that begins at cursor k < 7 stores its message as the
\* k-th field (the first message, at cursor 0, in no field) and moves the
\* cursor to k + 1; the cursor never exceeds 7; the turn at cursor 7 persists a
\* record with all 7 fields, its message being the last, and deletes the
\* session.
C28_CursorFillsFieldsInOrder ==
    /\ \A k \in DOMAIN sessions :
        (deployed = "cursor" /\ sessions[k] # NoRef)
        => heap[sessions[k]].step \in 0..Len(appointmentFields)
    /\ \A r \in DOMAIN req :
        CursorAnswered(r)
        => LET k == CursorBefore(r)
               message == req[r].event.message
           IN  IF k < Len(appointmentFields) THEN
                    /\ SessionNow(r) # NoSession
                    /\ SessionNow(r).step = k + 1
                    /\ SessionNow(r).data = WithField(SessionBefore(r).data, k, message)
                    /\ insertedDocs = req[r].insertedBefore
                    /\ DOMAIN SessionNow(r).data
                         = {appointmentFields[i] : i \in 1..k}
               ELSE
                    /\ SessionNow(r) = NoSession
                    /\ insertedDocs = req[r].insertedBefore + 1
                    /\ Range(appointmentFields) \subseteq DOMAIN resp[r].body.appointment
                    /\ \A i \in 1..(Len(appointmentFields) - 1) :
                         resp[r].body.appointment[appointmentFields[i]]
                            = SessionBefore(r).data[appointmentFields[i]]
                    /\ resp[r].body.appointment[appointmentFields[Len(appointmentFields)]]
                            = message

\* C28: the fourth successful turn of a session has stored its message as the
\* third field
C28_Witness ==
    \E r \in DOMAIN req :
        /\ CursorAnswered(r)
        /\ CursorBefore(r) = 3
        /\ SessionNow(r).step = 4
        /\ SessionNow(r).data[appointmentFields[3]] = req[r].event.message

\* C28: the turn at cursor 7 has persisted the record and deleted the session
C28_BookedWitness ==
    \E r \in DOMAIN req :
        /\ CursorAnswered(r)
        /\ CursorBefore(r) = 7
        /\ SessionNow(r) = NoSession

---------------------------------------------------------------------------
(* The end of a rate limit (chat.js 224-247)                               *)

\* the time at which the limit of a session ends: one window after the tenth
\* most recent of its admitted requests (0 while it has fewer than ten)
LimitEnds(sessionId) ==
    LET times == Requests(admitted, sessionId)
    IN  IF Len(times) < RATE_LIMIT_MAX_REQUESTS THEN 0
        ELSE times[Len(times) - RATE_LIMIT_MAX_REQUESTS + 1] + RATE_LIMIT_WINDOW

\* the limiter's cache holds times of admitted requests only
OnlyAdmittedRecorded ==
    \A k \in DOMAIN rateLimitCache :
        Range(rateLimitCache[k]) \subseteq Range(Requests(admitted, k))

\* a rejected request leaves the cache as it is, and a request that arrives
\* when the limit of its session has ended is admitted
LimitEndsInTime ==
    LET k == call'.event.sessionId
    IN  /\ call'.limited => rateLimitCache' = rateLimitCache
        /\ now >= LimitEnds(k)
           => /\ ~call'.limited
              /\ reply' # TooManyRequests
              /\ now \in Range(rateLimitCache'[k])

\* C29: rejected requests are not recorded, so a limited session is admitted
\* again as soon as fewer than ten of its admitted requests lie within the
\* last 60 seconds, however many requests it sent while it was limited.
C29_LimitedSessionIsAdmittedAgain ==
    /\ []OnlyAdmittedRecorded
    /\ [][LimiterStep => LimitEndsInTime]_vars

\* C29: the twelfth request of a session has been admitted after ten admitted
\* requests and one that was rejected
C29_Witness ==
    /\ deployed = "prod"
    /\ budget.a = 0
    /\ call.event.sessionId = key1
    /\ call.pc = "saveUser"
    /\ ~call.limited
    /\ Len(Requests(admitted, key1)) = RATE_LIMIT_MAX_REQUESTS + 1
    /\ admitted[key1][RATE_LIMIT_MAX_REQUESTS + 1] = now

---------------------------------------------------------------------------
(* The in-memory message store: src/src/utils/inMemoryStore.js, lines 1-19, *)
(* called as the function-calling handler does (chat.js 941-998)           *)

\* the sessions, system prompts and messages of the callers; null stands for
\* an omitted systemPrompt (its default)
key3 == Str(<<"s", "3">>)
StoreSessionIds == {key1, key2, key3}
SystemPrompts == {JsNull, Str(<< >>), Str(<<"p">>), Str(<<"q">>)}
StoreMessages ==
    {[role |-> "assistant", content |-> Str(<<"h", "i">>)],
     [role |-> "assistant", content |-> Str(<<"o", "k">>)]}

\* { role : "system", content : systemPrompt }
SystemMessage(systemPrompt) == [role |-> "system", content |-> systemPrompt]

\* a call of the store and how it ended: with a value ("list" or "undefined")
\* or with an error thrown
Returned(op, sessionId, arg, kind, value) ==
    [op |-> op, sessionId |-> sessionId, arg |-> arg, kind |-> kind, value |-> value]

NoCallYet == Returned("none", JsUndefined, JsUndefined, "undefined", << >>)

\* what the store's actions leave unchanged
StoreFrame ==
    UNCHANGED <<handlerVars, clockVars, openaiKey, rateLimitCache, chats,
                appointments, admitted, call, reply, validateVars,
                sessionCache, saved>>

\* getMessages(sessionId, systemPrompt = null) (lines 3-15)
GetMessages(sessionId, systemPrompt) ==
    /\ deployed = "store"
    /\ StoreFrame
    /\ IF sessionId \notin DOMAIN store /\ ~Truthy(systemPrompt) THEN
            /\ returned' = Returned("getMessages", sessionId, systemPrompt,
                                    "undefined", << >>)
            /\ UNCHANGED store
       ELSE
            /\ store' = IF sessionId \in DOMAIN store THEN store
                        ELSE Put(store, sessionId, <<SystemMessage(systemPrompt)>>)
            /\ returned' = Returned("getMessages", sessionId, systemPrompt,
                                    "list", store'[sessionId])

\* appendMessage(sessionId, msg) (lines 17-19): `getMessages` is no binding of
\* the module (the function is a property of module.exports only), so the
\* call throws a ReferenceError before anything is pushed
AppendMessage(sessionId, msg) ==
    /\ deployed = "store"
    /\ StoreFrame
    /\ returned' = Returned("appendMessage", sessionId, msg, "ReferenceError", << >>)
    /\ UNCHANGED store

StoreInit ==
    /\ deployed = "store"
    /\ sessions = [k \in SessionIds |-> NoRef]
    /\ heap = [o \in 1..(Cardinality(SessionIds) + Cardinality(Slots)) |-> FreeObj]
    /\ mongoClient = FALSE
    /\ cachedCollection = FALSE
    /\ awsCollection = FALSE
    /\ mongoPending = FALSE
    /\ pineconeClient = FALSE
    /\ pineconePending = FALSE
    /\ insertedDocs = 0
    /\ req = [r \in Slots |-> IdleReq]
    /\ resp = [r \in Slots |-> NoResp]
    /\ budget = [k \in SessionIds \cup {""} |-> -1]
    /\ now = 0
    /\ nextSweep = SweepPeriod
    /\ swept = [k \in SessionIds |-> NoSession]
    /\ openaiKey = FALSE
    /\ rateLimitCache = << >>
    /\ chats = EmptyBag
    /\ appointments = 0
    /\ admitted = << >>
    /\ call = NoCall
    /\ reply = NoResp
    /\ collected = EmptyMap
    /\ validation = NoValidation
    /\ sessionCache = << >>
    /\ saved = << >>
    /\ store = << >>
    /\ returned = NoCallYet

StoreNext ==
    \/ \E sessionId \in StoreSessionIds, systemPrompt \in SystemPrompts :
        GetMessages(sessionId, systemPrompt)
    \/ \E sessionId \in StoreSessionIds, msg \in StoreMessages :
        AppendMessage(sessionId, msg)

StoreSpec == StoreInit /\ [][StoreNext]_vars

\* the last call was this one
Called(op) == returned'.op = op /\ returned' # returned

\* getMessages on an unseen session creates the list of the one system message
\* if a prompt is given, and nothing otherwise; on a session of the store it
\* returns the list as it is
GetMessagesStep ==
    LET k == returned'.sessionId
        systemPrompt == returned'.arg
    IN  IF k \in DOMAIN store THEN
            /\ store' = store
            /\ returned'.kind = "list" /\ returned'.value = store[k]
        ELSE IF Truthy(systemPrompt) THEN
            /\ store' = Put(store, k, <<SystemMessage(systemPrompt)>>)
            /\ returned'.kind = "list" /\ returned'.value = store'[k]
        ELSE
            /\ store' = store
            /\ returned'.kind = "undefined"

\* appendMessage on a session of the store appends the message at the end
AppendMessageStep ==
    LET k == returned'.sessionId
    IN  k \in DOMAIN store
        => /\ returned'.kind # "ReferenceError"
           /\ store' = Put(store, k, Append(store[k], returned'.arg))

\* every list starts with its one system message, which no call replaces
OneSystemMessage ==
    \A k \in DOMAIN store :
        /\ store[k] # << >>
        /\ store[k][1].role = "system"
        /\ \A i \in 2..Len(store[k]) : store[k][i].role # "system"

\* C30: getMessages creates the list of an unseen session with exactly one
\* system message if a prompt is given and creates nothing otherwise, no call
\* replaces or repeats the system message, and appendMessage on a session of
\* the store appends its message at the end of the list.
C30_StoreKeepsPromptAndAppends ==
    /\ []OneSystemMessage
    /\ [][/\ Called("getMessages") => GetMessagesStep
          /\ Called("appendMessage") => AppendMessageStep
          /\ \A k \in DOMAIN store :
                k \in DOMAIN store' /\ store'[k][1] = store[k][1]]_vars

\* C30, the part that holds: what getMessages does, and the system message
C30_GetMessagesKeepsThePrompt ==
    /\ []OneSystemMessage
    /\ [][/\ Called("getMessages") => GetMessagesStep
          /\ \A k \in DOMAIN store :
                k \in DOMAIN store' /\ store'[k][1] = store[k][1]]_vars

============================================================================
